---- MODULE Spec2Model ----
(***************************************************************************)
(* Smart Portfolio Monitor (src/app.py): the scoring / decision engine     *)
(* and the email alerts with their cooldown.                               *)
(*                                                                         *)
(* Number conventions.  Prices are integer rupees.  Price levels computed  *)
(* by the code (ATR, trailing stops, targets, support / resistance) are    *)
(* fixed-point integers in units of 1/Scale rupee, so that the factors the *)
(* code multiplies by (0.02, 0.75, 0.95, 1.02, 1.05, 1.06, ...) are exact. *)
(* Percentages that the code only compares with thresholds are kept as     *)
(* fractions [num, den] and compared by cross-multiplication.              *)
(* pnl_percent and trail_trigger are in hundredths of a percent.           *)
(*                                                                         *)
(* A price history (the DataFrame df) is represented by its length n and   *)
(* by the tails of the columns the code reads: the last close, the last    *)
(* close differences, the last MACD histogram values, and the last value   *)
(* of every rolling window.  A rolling window yields NaN until the history *)
(* is long enough; that rule is part of the operators below.               *)
(***************************************************************************)
EXTENDS Integers, Sequences, FiniteSets, TLC

VARIABLES pc, config, position, result, args, ret, session_state, now, mailbox

vars == <<pc, config, position, result, args, ret, session_state, now, mailbox>>

Scale == 100 * 100

NaN == 0 - 1000000

isna(x) == x = NaN

Max2(a, b) == IF a >= b THEN a ELSE b

Min2(a, b) == IF a <= b THEN a ELSE b

Frac(a, b) == [num |-> a, den |-> b]

\* fraction f < a/b, f > a/b, for positive denominators
FracLt(f, a, b) == f.num * b < a * f.den

FracGt(f, a, b) == f.num * b > a * f.den

None == [none |-> TRUE]

(***************************************************************************)
(* Program constants                                                       *)
(***************************************************************************)
RsiPeriod == 14

AtrPeriod == 14

BollingerPeriod == 20

VolumeWindow == 20

SrLookback == 60

SrMinBars == 10

PatternLookback == 30

(***************************************************************************)
(* Technical indicators, last value of each                                *)
(***************************************************************************)
\* calculate_rsi(close).iloc[-1]: rolling(14) means of the gains and losses of
\* close.diff().  The first diff is NaN, but delta.where(delta > 0, 0) puts 0
\* wherever the test is false, the NaN included, so the gains and losses
\* have a value on every bar and the rolling mean is defined from 14 bars on.
\* df.gain and df.loss are the sums of the last 14 gains / losses.
\* faulty variant of calculate_rsi: before the warm-up the RSI reads 0
\* instead of NaN
calculate_rsi_zero_filled(df) ==
    IF df.n < RsiPeriod THEN 0
    ELSE IF df.gain = 0 /\ df.loss = 0 THEN NaN
    ELSE (100 * df.gain) \div (df.gain + df.loss)

calculate_rsi(df) ==
    IF df.n < RsiPeriod THEN NaN
    ELSE IF df.gain = 0 /\ df.loss = 0 THEN NaN
    ELSE (100 * df.gain) \div (df.gain + df.loss)

\* calculate_macd(close): ewm(adjust=False) is defined from the first bar on,
\* so the histogram has one value per bar; df.hist holds its last values.
hist_at(df, back) ==
    IF Len(df.hist) >= back THEN df.hist[Len(df.hist) - back + 1] ELSE 0

\* calculate_atr(high, low, close).iloc[-1], in 1/Scale rupee
calculate_atr(df) ==
    IF df.n < AtrPeriod THEN NaN ELSE df.atr * Scale

\* calculate_bollinger_bands(close): <<upper, lower>> last values
calculate_bollinger_bands(df) ==
    IF df.n < BollingerPeriod THEN <<NaN, NaN>> ELSE <<df.bb_upper, df.bb_lower>>

(***************************************************************************)
(* find_support_resistance                                                 *)
(***************************************************************************)
RECURSIVE SortedInsert(_, _)
SortedInsert(s, x) ==
    IF s = <<>> THEN <<x>>
    ELSE IF x <= Head(s) THEN <<x>> \o s
    ELSE <<Head(s)>> \o SortedInsert(Tail(s), x)

RECURSIVE sorted(_)
sorted(s) == IF s = <<>> THEN <<>> ELSE SortedInsert(sorted(Tail(s)), Head(s))

RECURSIVE SumSeq(_)
SumSeq(s) == IF s = <<>> THEN 0 ELSE Head(s) + SumSeq(Tail(s))

\* the closing step of a cluster: its average level and its touch count
ClusterOf(cluster) ==
    [level |-> (SumSeq(cluster) * Scale) \div Len(cluster), touches |-> Len(cluster)]

RECURSIVE ClusterRest(_, _, _)
ClusterRest(levels, current_cluster, threshold_pct) ==
    IF levels = <<>> THEN <<ClusterOf(current_cluster)>>
    ELSE IF (Head(levels) - current_cluster[1]) * 100 < threshold_pct * current_cluster[1]
         THEN ClusterRest(Tail(levels), Append(current_cluster, Head(levels)), threshold_pct)
         ELSE <<ClusterOf(current_cluster)>>
              \o ClusterRest(Tail(levels), <<Head(levels)>>, threshold_pct)

cluster_levels(levels) ==
    IF levels = <<>> THEN <<>>
    ELSE LET s == sorted(levels) IN ClusterRest(Tail(s), <<s[1]>>, 1)

get_strength(touch_count) ==
    IF touch_count >= 3 THEN "STRONG"
    ELSE IF touch_count >= 2 THEN "MODERATE"
    ELSE "WEAK"

LastN(s, k) == IF Len(s) <= k THEN s ELSE SubSeq(s, Len(s) - k + 1, Len(s))

\* faulty variant of nearest_support_of: the highest clustered level is taken
\* without the test that it is below the current price
nearest_support_unfiltered(support_levels, current_price) ==
    IF support_levels # <<>>
    THEN support_levels[Len(support_levels)]
    ELSE [level |-> current_price * 9500, touches |-> 0]

\* max(supports_below, key=level) with the fallback current_price * 0.95;
\* the clustered levels ascend, so the maximum is the last index
nearest_support_of(support_levels, current_price) ==
    LET supports_below == {i \in 1..Len(support_levels) :
                             support_levels[i].level < current_price * Scale}
    IN  IF supports_below # {}
        THEN support_levels[CHOOSE i \in supports_below : \A j \in supports_below : j <= i]
        ELSE [level |-> current_price * 9500, touches |-> 0]

\* min(resistances_above, key=level) with the fallback current_price * 1.05
nearest_resistance_of(resistance_levels, current_price) ==
    LET resistances_above == {i \in 1..Len(resistance_levels) :
                                resistance_levels[i].level > current_price * Scale}
    IN  IF resistances_above # {}
        THEN resistance_levels[CHOOSE i \in resistances_above :
                                 \A j \in resistances_above : i <= j]
        ELSE [level |-> current_price * 10500, touches |-> 0]

LevelsOf(clusters) == [i \in 1..Len(clusters) |-> clusters[i].level]

\* the dict find_support_resistance returns
SrResult(support_levels, resistance_levels, sup, res, current_price) ==
    [support_levels |-> LevelsOf(LastN(support_levels, 5)),
     resistance_levels |-> LevelsOf(LastN(resistance_levels, 5)),
     nearest_support |-> sup.level,
     nearest_resistance |-> res.level,
     distance_to_support |->
         Frac((current_price * Scale - sup.level) * 100, current_price * Scale),
     distance_to_resistance |->
         Frac((res.level - current_price * Scale) * 100, current_price * Scale),
     support_strength |-> get_strength(sup.touches),
     resistance_strength |-> get_strength(res.touches)]

\* df.pivot_lows / df.pivot_highs: the pivot lows and highs found in the
\* lookback window, in the order the scan finds them
find_support_resistance(df) ==
    LET lookback == IF df.n < SrLookback THEN df.n ELSE SrLookback
        current_price == df.close
    IN  IF lookback < SrMinBars
        THEN [support_levels |-> <<>>, resistance_levels |-> <<>>,
              nearest_support |-> current_price * 9500,
              nearest_resistance |-> current_price * 10500,
              distance_to_support |-> Frac(5, 1),
              distance_to_resistance |-> Frac(5, 1),
              support_strength |-> "WEAK", resistance_strength |-> "WEAK"]
        ELSE SrResult(cluster_levels(df.pivot_lows), cluster_levels(df.pivot_highs),
                      nearest_support_of(cluster_levels(df.pivot_lows), current_price),
                      nearest_resistance_of(cluster_levels(df.pivot_highs), current_price),
                      current_price)

(***************************************************************************)
(* analyze_volume                                                          *)
(***************************************************************************)
\* line 820 reads df['Close'].iloc[-2] without a length check: on a one-bar
\* history whose last volume is not 0 the call ends in an IndexError
analyze_volume_raises(df) == df.volume # 0 /\ df.n < 2

VolumeSignal(price_change, volume_ratio) ==
    IF price_change > 0 /\ FracGt(volume_ratio, 15, 10) THEN "STRONG_BUYING"
    ELSE IF price_change > 0 /\ FracGt(volume_ratio, 1, 1) THEN "BUYING"
    ELSE IF price_change > 0 /\ FracLt(volume_ratio, 7, 10) THEN "WEAK_BUYING"
    ELSE IF price_change < 0 /\ FracGt(volume_ratio, 15, 10) THEN "STRONG_SELLING"
    ELSE IF price_change < 0 /\ FracGt(volume_ratio, 1, 1) THEN "SELLING"
    ELSE IF price_change < 0 /\ FracLt(volume_ratio, 7, 10) THEN "WEAK_SELLING"
    ELSE "NEUTRAL"

VolumeRatio(current_volume, avg_volume) ==
    IF ~isna(avg_volume) /\ avg_volume > 0
    THEN Frac(current_volume, avg_volume) ELSE Frac(1, 1)

VolumeResult(signal, volume_ratio, volume_trend) ==
    [signal |-> signal, volume_ratio |-> volume_ratio, volume_trend |-> volume_trend]

\* df.vol20 / df.vol5: mean volume of the last 20 / 5 bars
analyze_volume(df) ==
    IF df.volume = 0
    THEN VolumeResult("NEUTRAL", Frac(1, 1), "NEUTRAL")
    ELSE
    LET avg_volume == IF df.n < VolumeWindow THEN NaN ELSE df.vol20
        volume_ratio == VolumeRatio(df.volume, avg_volume)
        price_change == df.diffs[Len(df.diffs)]
        volume_trend == IF df.vol5 > df.vol20 THEN "INCREASING" ELSE "DECREASING"
    IN  VolumeResult(VolumeSignal(price_change, volume_ratio), volume_ratio, volume_trend)

(***************************************************************************)
(* detect_chart_patterns                                                   *)
(***************************************************************************)
\* df.patterns: the patterns the scan of the last 30 bars detects, in the
\* order the code appends them
detect_chart_patterns(df) ==
    IF df.n < PatternLookback THEN <<>> ELSE df.patterns

(***************************************************************************)
(* Moving averages read by the scorers                                     *)
(***************************************************************************)
sma_20_of(df) == IF df.n >= 20 THEN df.sma20 ELSE df.mean

sma_50_of(df) == IF df.n >= 50 THEN df.sma50 ELSE sma_20_of(df)

ema_9_of(df) == df.ema9

ema_21_of(df) == IF df.n >= 21 THEN df.ema21 ELSE df.mean

(***************************************************************************)
(* calculate_momentum_score                                                *)
(***************************************************************************)
\* rolling(14) twice: the ADX needs 2 * 14 - 1 bars
calculate_adx(df) == IF df.n < 2 * 14 - 1 THEN NaN ELSE df.adx

\* %K is a rolling(14) window, %D a rolling(3) mean of %K
calculate_stochastic(df) ==
    <<IF df.n < 14 THEN NaN ELSE df.stoch_k,
      IF df.n < 14 + 3 - 1 \/ isna(df.stoch_k) THEN NaN ELSE df.stoch_d>>

\* faulty variant of Clamp0to100: the score is returned without the clamp
NoClamp(score) == score

Clamp0to100(score) == Max2(0, Min2(100, score))

MomentumTrend(final_score) ==
    IF final_score >= 75 THEN "STRONG BULLISH"
    ELSE IF final_score >= 60 THEN "BULLISH"
    ELSE IF final_score >= 45 THEN "NEUTRAL"
    ELSE IF final_score >= 30 THEN "BEARISH"
    ELSE "STRONG BEARISH"

MomentumResult(final_score) ==
    [score |-> final_score, trend |-> MomentumTrend(final_score)]

calculate_momentum_score(df) ==
    LET rsi0 == calculate_rsi(df)
        rsi == IF isna(rsi0) THEN 50 ELSE rsi0
        rsi_score == IF rsi > 70 THEN -10
                     ELSE IF rsi > 60 THEN 15
                     ELSE IF rsi > 50 THEN 10
                     ELSE IF rsi > 40 THEN -5
                     ELSE IF rsi > 30 THEN -15
                     ELSE 10
        hist_current == hist_at(df, 1)
        hist_prev == hist_at(df, 2)
        hist_prev2 == hist_at(df, 3)
        macd_bullish == hist_current > 0
        macd_rising == hist_current > hist_prev
        macd_accelerating == (hist_current - hist_prev) > (hist_prev - hist_prev2)
        macd_score ==
            IF macd_bullish /\ macd_rising /\ macd_accelerating THEN 20
            ELSE IF macd_bullish /\ macd_rising THEN 15
            ELSE IF macd_bullish THEN 5
            ELSE IF ~macd_bullish /\ ~macd_rising /\ ~macd_accelerating THEN -20
            ELSE IF ~macd_bullish /\ ~macd_rising THEN -15
            ELSE -5
        current_price == df.close
        sma_20 == sma_20_of(df)
        sma_50 == sma_50_of(df)
        ema_9 == ema_9_of(df)
        ema_21 == ema_21_of(df)
        ma_score ==
            (IF current_price > ema_9 THEN 4 ELSE -4)
            + (IF current_price > sma_20 THEN 4 ELSE -4)
            + (IF current_price > sma_50 THEN 4 ELSE -4)
            + (IF ema_9 > ema_21 /\ ema_21 > sma_50 THEN 8
               ELSE IF ema_9 < ema_21 /\ ema_21 < sma_50 THEN -8
               ELSE IF ema_9 > ema_21 THEN 4
               ELSE -4)
        returns_5d == IF df.n > 6 THEN df.ret5 ELSE 0
        returns_10d == IF df.n > 11 THEN df.ret10 ELSE 0
        returns_20d == IF df.n > 21 THEN df.ret20 ELSE 0
        \* weighted_momentum * 2 = (0.5 r5 + 0.3 r10 + 0.2 r20) * 2
        momentum_score ==
            Min2(15, Max2(-15, (10 * returns_5d + 6 * returns_10d + 4 * returns_20d) \div 10))
        adx0 == calculate_adx(df)
        adx == IF isna(adx0) THEN 20 ELSE adx0
        trend_score ==
            IF current_price > sma_20
            THEN (IF adx > 30 THEN 10 ELSE IF adx > 20 THEN 5 ELSE 2)
            ELSE (IF adx > 30 THEN -10 ELSE IF adx > 20 THEN -5 ELSE -2)
        kd == calculate_stochastic(df)
        k_val == IF isna(kd[1]) THEN 50 ELSE kd[1]
        d_val == IF isna(kd[2]) THEN 50 ELSE kd[2]
        stoch_score ==
            IF k_val > 80 THEN -5
            ELSE IF k_val > 50 /\ k_val > d_val THEN 5
            ELSE IF k_val < 20 THEN 5
            ELSE IF k_val < 50 /\ k_val < d_val THEN -5
            ELSE 0
        score == 50 + rsi_score + macd_score + ma_score + momentum_score
                 + trend_score + stoch_score
    IN  MomentumResult(Clamp0to100(score))

(***************************************************************************)
(* predict_sl_risk                                                         *)
(***************************************************************************)
If(c, tag) == IF c THEN <<tag>> ELSE <<>>

Pts(c, k) == IF c THEN k ELSE 0

CapAt100(risk_score) == Min2(100, risk_score)

\* the distance bands: < 0, < 1 %, < approach, < approach * 1.5,
\* < approach * 2, < 5 %
DistanceBand(distance_pct, sl_approach_threshold) ==
    IF distance_pct.num < 0 THEN "BREACHED"
    ELSE IF FracLt(distance_pct, 1, 1) THEN "CRITICAL"
    ELSE IF FracLt(distance_pct, sl_approach_threshold, 100) THEN "VERY_CLOSE"
    ELSE IF FracLt(distance_pct, sl_approach_threshold * 3, 200) THEN "APPROACHING"
    ELSE IF FracLt(distance_pct, sl_approach_threshold * 2, 100) THEN "GETTING_CLOSE"
    ELSE IF FracLt(distance_pct, 5, 1) THEN "NEAR"
    ELSE "SAFE"

\* faulty variant of DistancePoints: the band below 5 % scores more than the
\* band below twice the approach threshold
DistancePointsNearHigh(band) ==
    CASE band = "BREACHED" -> 100
      [] band = "CRITICAL" -> 40
      [] band = "VERY_CLOSE" -> 35
      [] band = "APPROACHING" -> 25
      [] band = "GETTING_CLOSE" -> 15
      [] band = "NEAR" -> 18
      [] OTHER -> 0

DistancePoints(band) ==
    CASE band = "BREACHED" -> 100
      [] band = "CRITICAL" -> 40
      [] band = "VERY_CLOSE" -> 35
      [] band = "APPROACHING" -> 25
      [] band = "GETTING_CLOSE" -> 15
      [] band = "NEAR" -> 8
      [] OTHER -> 0

RsiRiskPoints(long, rsi) ==
    IF long
    THEN (IF rsi < 30 THEN 10 ELSE IF rsi < 40 THEN 6 ELSE IF rsi < 50 THEN 3 ELSE 0)
    ELSE (IF rsi > 70 THEN 10 ELSE IF rsi > 60 THEN 6 ELSE IF rsi > 50 THEN 3 ELSE 0)

CandlePoints(consecutive_against) ==
    IF consecutive_against >= 4 THEN 10
    ELSE IF consecutive_against >= 3 THEN 7
    ELSE IF consecutive_against >= 2 THEN 4
    ELSE 0

VolumeRiskPoints(long, signal) ==
    IF long
    THEN (IF signal = "STRONG_SELLING" THEN 10 ELSE IF signal = "SELLING" THEN 6 ELSE 0)
    ELSE (IF signal = "STRONG_BUYING" THEN 10 ELSE IF signal = "BUYING" THEN 6 ELSE 0)

\* faulty variant of RiskPriority: the LOW band starts at 20
RiskPriorityLowAt20(risk_score, sl_alert_threshold) ==
    IF risk_score >= 90 THEN "CRITICAL"
    ELSE IF risk_score >= 75 THEN "CRITICAL"
    ELSE IF risk_score >= sl_alert_threshold + 20 THEN "HIGH"
    ELSE IF risk_score >= sl_alert_threshold THEN "MEDIUM"
    ELSE IF risk_score >= 20 THEN "LOW"
    ELSE "SAFE"

RiskPriority(risk_score, sl_alert_threshold) ==
    IF risk_score >= 90 THEN "CRITICAL"
    ELSE IF risk_score >= 75 THEN "CRITICAL"
    ELSE IF risk_score >= sl_alert_threshold + 20 THEN "HIGH"
    ELSE IF risk_score >= sl_alert_threshold THEN "MEDIUM"
    ELSE IF risk_score >= 25 THEN "LOW"
    ELSE "SAFE"

RiskRecommendation(risk_score, sl_alert_threshold) ==
    IF risk_score >= 90 THEN "EXIT NOW"
    ELSE IF risk_score >= 75 THEN "EXIT IMMEDIATELY"
    ELSE IF risk_score >= sl_alert_threshold + 20 THEN "CONSIDER EXIT"
    ELSE IF risk_score >= sl_alert_threshold THEN "WATCH CLOSELY"
    ELSE IF risk_score >= 25 THEN "MONITOR"
    ELSE "SAFE"

IsApproachingSl(distance_pct, sl_approach_threshold) ==
    FracLt(distance_pct, sl_approach_threshold, 100) /\ distance_pct.num > 0

\* faulty variant of SlRiskResult: the score is rescaled by the threshold
SlRiskResultRescaled(risk_score, reasons, distance_pct, sl_alert_threshold, sl_approach_threshold) ==
    [risk_score |-> Min2(100, (risk_score * 50) \div sl_alert_threshold),
     reasons |-> reasons,
     recommendation |-> RiskRecommendation(risk_score, sl_alert_threshold),
     priority |-> RiskPriority(risk_score, sl_alert_threshold),
     distance_pct |-> distance_pct,
     is_approaching_sl |-> IsApproachingSl(distance_pct, sl_approach_threshold)]

\* the dict predict_sl_risk returns
SlRiskResult(risk_score, reasons, distance_pct, sl_alert_threshold, sl_approach_threshold) ==
    [risk_score |-> risk_score, reasons |-> reasons,
     recommendation |-> RiskRecommendation(risk_score, sl_alert_threshold),
     priority |-> RiskPriority(risk_score, sl_alert_threshold),
     distance_pct |-> distance_pct,
     is_approaching_sl |-> IsApproachingSl(distance_pct, sl_approach_threshold)]

\* sl_approach_threshold is in hundredths of a percent (2.0 % is 200)
predict_sl_risk(df, current_price, stop_loss, position_type, entry_price, sl_alert_threshold, sl_approach_threshold) ==
    LET distance_pct ==
            IF position_type = "LONG"
            THEN Frac((current_price - stop_loss) * 100, current_price)
            ELSE Frac((stop_loss - current_price) * 100, current_price)
        \* 1. distance to stop loss
        band == DistanceBand(distance_pct, sl_approach_threshold)
        distance_points == DistancePoints(band)
        distance_reasons == If(band \notin {"NEAR", "SAFE"}, band)
        \* 2. trend against position
        sma_20 == sma_20_of(df)
        sma_50 == sma_50_of(df)
        ema_9 == ema_9_of(df)
        ema_21 == ema_21_of(df)
        long == position_type = "LONG"
        t1 == IF long THEN current_price < ema_9 ELSE current_price > ema_9
        t2 == IF long THEN current_price < sma_20 ELSE current_price > sma_20
        t3 == IF long THEN current_price < sma_50 ELSE current_price > sma_50
        t4 == IF long THEN ema_9 < ema_21 ELSE ema_9 > ema_21
        trend_points == Pts(t1, 7) + Pts(t2, 8) + Pts(t3, 5) + Pts(t4, 5)
        trend_reasons == If(t1, "EMA9") \o If(t2, "SMA20") \o If(t3, "SMA50")
                         \o If(t4, "EMA_CROSS")
        \* 3. MACD against position
        hist_current == hist_at(df, 1)
        hist_prev == hist_at(df, 2)
        m1 == IF long THEN hist_current < 0 ELSE hist_current > 0
        m2 == IF long THEN hist_current < hist_prev ELSE hist_current > hist_prev
        macd_points == Pts(m1, 7) + Pts(m2, 5) + Pts(m1 /\ m2, 3)
        macd_reasons == If(m1, "MACD_AGAINST") \o If(m2, "MACD_MOVING_AGAINST")
                        \o If(m1 /\ m2, "MACD_ACCELERATING")
        \* 4. RSI extreme against position
        rsi0 == calculate_rsi(df)
        rsi == IF isna(rsi0) THEN 50 ELSE rsi0
        rsi_points == RsiRiskPoints(long, rsi)
        rsi_reasons == If(rsi_points > 0, "RSI")
        \* 5. consecutive candles against position
        consecutive_against ==
            IF df.n >= 5
            THEN Cardinality({i \in 1..Len(df.diffs) :
                    IF long THEN df.diffs[i] < 0 ELSE df.diffs[i] > 0})
            ELSE 0
        candle_points == CandlePoints(consecutive_against)
        candle_reasons == If(consecutive_against >= 3, "CANDLES")
        \* 6. volume confirmation against position
        volume_points == VolumeRiskPoints(long, analyze_volume(df).signal)
        volume_reasons == If(volume_points > 0, "VOLUME")
        \* 7. ATR volatility check: atr / price * 100 > distance_pct
        atr == calculate_atr(df)
        \* (distance_pct.den is current_price, which cancels)
        a1 == ~isna(atr) /\ atr * 100 > distance_pct.num * Scale
        \* 8. support / resistance check
        sr_levels == find_support_resistance(df)
        s1 == IF long THEN current_price * Scale < sr_levels.nearest_support
                      ELSE current_price * Scale > sr_levels.nearest_resistance
        risk_score == CapAt100(distance_points + trend_points + macd_points + rsi_points
                               + candle_points + volume_points + Pts(a1, 5) + Pts(s1, 5))
        reasons == distance_reasons \o trend_reasons \o macd_reasons \o rsi_reasons
                   \o candle_reasons \o volume_reasons \o If(a1, "VOLATILITY")
                   \o If(s1, "SR_BROKEN")
    IN  SlRiskResult(risk_score, reasons, distance_pct, sl_alert_threshold,
                     sl_approach_threshold)

(***************************************************************************)
(* predict_upside_potential                                                *)
(***************************************************************************)
MomentumUpsidePoints(long, momentum_score) ==
    IF long
    THEN (IF momentum_score >= 75 THEN 25
          ELSE IF momentum_score >= 60 THEN 15
          ELSE IF momentum_score >= 50 THEN 5
          ELSE IF momentum_score <= 35 THEN -20
          ELSE -10)
    ELSE (IF momentum_score <= 25 THEN 25
          ELSE IF momentum_score <= 40 THEN 15
          ELSE IF momentum_score <= 50 THEN 5
          ELSE IF momentum_score >= 65 THEN -20
          ELSE -10)

RsiUpsidePoints(long, rsi) ==
    IF long
    THEN (IF rsi < 55 THEN 15
          ELSE IF rsi < 65 THEN 8
          ELSE IF rsi > 80 THEN -25
          ELSE IF rsi > 70 THEN -15
          ELSE -5)
    ELSE (IF rsi > 45 THEN 15
          ELSE IF rsi > 35 THEN 8
          ELSE IF rsi < 20 THEN -25
          ELSE IF rsi < 30 THEN -15
          ELSE -5)

VolumeUpsidePoints(long, vol) ==
    LET with == IF long THEN "BUYING" ELSE "SELLING"
        strong_with == IF long THEN "STRONG_BUYING" ELSE "STRONG_SELLING"
        against == IF long THEN {"STRONG_SELLING", "SELLING"}
                   ELSE {"STRONG_BUYING", "BUYING"}
    IN  IF vol.signal = strong_with THEN 15
        ELSE IF vol.signal = with THEN 10
        ELSE IF vol.signal \in against THEN -15
        ELSE IF FracLt(vol.volume_ratio, 7, 10) THEN -5
        ELSE 0

VolumeTrendPoints(volume_trend) ==
    IF volume_trend = "INCREASING" THEN 5
    ELSE IF volume_trend = "DECREASING" THEN -5
    ELSE 0

\* bb_position = (current_price - lower) / (upper - lower)
BollingerPoints(long, current_price, upper, lower) ==
    LET bb_range == upper - lower
        bb_position == Frac(current_price - lower, bb_range)
    IN  IF isna(upper) \/ isna(lower) \/ bb_range <= 0 THEN 0
        ELSE IF long
        THEN (IF FracLt(bb_position, 6, 10) THEN 10
              ELSE IF FracGt(bb_position, 95, 100) THEN -15
              ELSE IF FracGt(bb_position, 85, 100) THEN -8
              ELSE 0)
        ELSE (IF FracGt(bb_position, 4, 10) THEN 10
              ELSE IF FracLt(bb_position, 5, 100) THEN -15
              ELSE IF FracLt(bb_position, 15, 100) THEN -8
              ELSE 0)

MacdUpsidePoints(long, hist_current, hist_prev) ==
    IF long
    THEN (IF hist_current > 0 /\ hist_current > hist_prev THEN 10
          ELSE IF hist_current > 0 THEN 5
          ELSE IF hist_current < hist_prev THEN -10
          ELSE 0)
    ELSE (IF hist_current < 0 /\ hist_current < hist_prev THEN 10
          ELSE IF hist_current < 0 THEN 5
          ELSE IF hist_current > hist_prev THEN -10
          ELSE 0)

\* the new target from ATR and support / resistance, in 1/Scale rupee
NewTarget(long, price, atr, sr_levels) ==
    IF long
    THEN LET atr_target == price + atr * 3
             sr_target == sr_levels.nearest_resistance
         IN  IF sr_target > price
             THEN Min2(atr_target, (sr_target * 102) \div 100)
             ELSE atr_target
    ELSE LET atr_target == price - atr * 3
             sr_target == sr_levels.nearest_support
         IN  IF sr_target < price
             THEN Max2(atr_target, (sr_target * 98) \div 100)
             ELSE atr_target

GainPoints(potential_gain) ==
    IF FracGt(potential_gain, 8, 1) THEN 10
    ELSE IF FracGt(potential_gain, 5, 1) THEN 7
    ELSE IF FracGt(potential_gain, 3, 1) THEN 4
    ELSE IF FracLt(potential_gain, 1, 1) THEN -10
    ELSE 0

PotentialGain(long, price, new_target) ==
    IF long THEN Frac((new_target - price) * 100, price)
    ELSE Frac((price - new_target) * 100, price)

\* faulty variant of UpsideRecommendation: three recommendations, with the
\* thresholds 70 and 50
UpsideRecommendationThreeWay(score) ==
    IF score >= 70 THEN "HOLD"
    ELSE IF score >= 50 THEN "PARTIAL_EXIT"
    ELSE "EXIT"

UpsideRecommendation(score) ==
    IF score >= 75 THEN "STRONG_HOLD"
    ELSE IF score >= 60 THEN "HOLD"
    ELSE IF score >= 45 THEN "PARTIAL_EXIT"
    ELSE IF score >= 30 THEN "MOSTLY_EXIT"
    ELSE "EXIT"

\* the dict predict_upside_potential returns
UpsideResult(score, new_target) ==
    [score |-> score, new_target |-> new_target,
     recommendation |-> UpsideRecommendation(score)]

\* the sum of the seven factors on top of the base of 50, before the clamp
UpsideRawScore(long, current_price, momentum_score, rsi, vol, bb, hist_current, hist_prev, new_target) ==
    50 + MomentumUpsidePoints(long, momentum_score)
       + RsiUpsidePoints(long, rsi)
       + VolumeUpsidePoints(long, vol)
       + VolumeTrendPoints(vol.volume_trend)
       + BollingerPoints(long, current_price, bb[1], bb[2])
       + MacdUpsidePoints(long, hist_current, hist_prev)
       + GainPoints(PotentialGain(long, current_price * Scale, new_target))

predict_upside_potential(df, current_price, target1, target2, position_type) ==
    LET long == position_type = "LONG"
        rsi0 == calculate_rsi(df)
        rsi == IF isna(rsi0) THEN 50 ELSE rsi0
        atr0 == calculate_atr(df)
        atr == IF isna(atr0) THEN current_price * 200 ELSE atr0
        new_target == NewTarget(long, current_price * Scale, atr,
                                find_support_resistance(df))
        score == UpsideRawScore(long, current_price, calculate_momentum_score(df).score,
                                rsi, analyze_volume(df), calculate_bollinger_bands(df),
                                hist_at(df, 1), hist_at(df, 2), new_target)
    IN  UpsideResult(Clamp0to100(score), new_target)

(***************************************************************************)
(* calculate_dynamic_levels                                                *)
(***************************************************************************)
\* atr * k / 100, for the multipliers 0.75, 1, 1.5, 2, 2.5, 3, 5
AtrTimes(atr, k) == (atr * k) \div 100

\* faulty variant of TrailTier: the TIGHTEN tier starts at a quarter of the
\* trigger instead of half of it
TrailTierQuarter(pnl_percent, trail_trigger) ==
    IF pnl_percent >= trail_trigger * 4 THEN "LOCK_6"
    ELSE IF pnl_percent >= trail_trigger * 3 THEN "LOCK_4"
    ELSE IF pnl_percent >= trail_trigger * 2 THEN "LOCK_2"
    ELSE IF pnl_percent >= trail_trigger THEN "BREAKEVEN"
    ELSE IF pnl_percent * 4 >= trail_trigger THEN "TIGHTEN"
    ELSE "HOLD"

\* pnl_percent and trail_trigger are in hundredths of a percent
TrailTier(pnl_percent, trail_trigger) ==
    IF pnl_percent >= trail_trigger * 4 THEN "LOCK_6"
    ELSE IF pnl_percent >= trail_trigger * 3 THEN "LOCK_4"
    ELSE IF pnl_percent >= trail_trigger * 2 THEN "LOCK_2"
    ELSE IF pnl_percent >= trail_trigger THEN "BREAKEVEN"
    ELSE IF pnl_percent * 2 >= trail_trigger THEN "TIGHTEN"
    ELSE "HOLD"

TrailAction(tier) ==
    CASE tier \in {"LOCK_6", "LOCK_4"} -> "LOCK_PROFITS"
      [] tier = "LOCK_2" -> "SECURE_GAINS"
      [] OTHER -> tier

LongTrailStop(tier, entry_price, price, stop, atr) ==
    CASE tier = "LOCK_6" -> Max2(entry_price * 10600, price - AtrTimes(atr, 75))
      [] tier = "LOCK_4" -> Max2(entry_price * 10400, price - atr)
      [] tier = "LOCK_2" -> Max2(entry_price * 10200, price - AtrTimes(atr, 150))
      [] tier = "BREAKEVEN" -> Max2(entry_price * Scale, price - atr * 2)
      [] tier = "TIGHTEN" -> Max2(stop, price - AtrTimes(atr, 250))
      [] OTHER -> stop

\* faulty variant of ShortTrailStop: the BREAKEVEN tier is not capped at
\* the entry price
ShortTrailStopUncapped(tier, entry_price, price, stop, atr) ==
    CASE tier = "LOCK_6" -> Min2(entry_price * 9400, price + AtrTimes(atr, 75))
      [] tier = "LOCK_4" -> Min2(entry_price * 9600, price + atr)
      [] tier = "LOCK_2" -> Min2(entry_price * 9800, price + AtrTimes(atr, 150))
      [] tier = "BREAKEVEN" -> price + atr * 2
      [] tier = "TIGHTEN" -> Min2(stop, price + AtrTimes(atr, 250))
      [] OTHER -> stop

ShortTrailStop(tier, entry_price, price, stop, atr) ==
    CASE tier = "LOCK_6" -> Min2(entry_price * 9400, price + AtrTimes(atr, 75))
      [] tier = "LOCK_4" -> Min2(entry_price * 9600, price + atr)
      [] tier = "LOCK_2" -> Min2(entry_price * 9800, price + AtrTimes(atr, 150))
      [] tier = "BREAKEVEN" -> Min2(entry_price * Scale, price + atr * 2)
      [] tier = "TIGHTEN" -> Min2(stop, price + AtrTimes(atr, 250))
      [] OTHER -> stop

\* faulty variant of LongShouldTrail: an unchanged stop counts as a trail
ShouldTrailOrEqual(trail_stop, stop) == trail_stop >= stop

LongShouldTrail(trail_stop, stop) == trail_stop > stop

ShortShouldTrail(trail_stop, stop) == trail_stop < stop

calculate_dynamic_levels(df, entry_price, current_price, stop_loss, position_type, pnl_percent, trail_trigger) ==
    LET atr0 == calculate_atr(df)
        atr == IF isna(atr0) THEN current_price * 200 ELSE atr0
        sr_levels == find_support_resistance(df)
        price == current_price * Scale
        stop == stop_loss * Scale
        long == position_type = "LONG"
        tier == TrailTier(pnl_percent, trail_trigger)
        target1 == IF long THEN price + AtrTimes(atr, 150) ELSE price - AtrTimes(atr, 150)
        target2 == IF long THEN price + atr * 3 ELSE price - atr * 3
        target3 == IF long THEN Min2(price + atr * 5, sr_levels.nearest_resistance)
                           ELSE Max2(price - atr * 5, sr_levels.nearest_support)
        adjusted_target ==
            IF long
            THEN (IF sr_levels.nearest_resistance < target2
                  THEN (sr_levels.nearest_resistance * 99) \div 100 ELSE target2)
            ELSE (IF sr_levels.nearest_support > target2
                  THEN (sr_levels.nearest_support * 101) \div 100 ELSE target2)
        trail_stop == IF long THEN LongTrailStop(tier, entry_price, price, stop, atr)
                              ELSE ShortTrailStop(tier, entry_price, price, stop, atr)
        should_trail == IF long THEN LongShouldTrail(trail_stop, stop)
                                ELSE ShortShouldTrail(trail_stop, stop)
        improvement == IF long THEN trail_stop - stop ELSE stop - trail_stop
    IN  [atr |-> atr, atr_pct |-> Frac(atr * 100, price),
         support |-> sr_levels.nearest_support,
         resistance |-> sr_levels.nearest_resistance,
         support_strength |-> sr_levels.support_strength,
         resistance_strength |-> sr_levels.resistance_strength,
         target1 |-> target1, target2 |-> target2, target3 |-> target3,
         adjusted_target |-> adjusted_target,
         trail_stop |-> trail_stop, trail_action |-> TrailAction(tier),
         should_trail |-> should_trail,
         trail_improvement |-> IF should_trail THEN improvement ELSE 0,
         trail_improvement_pct |-> IF should_trail
                                   THEN Frac(improvement * 100, entry_price * Scale)
                                   ELSE Frac(0, 1)]

(***************************************************************************)
(* multi_timeframe_analysis                                                *)
(***************************************************************************)
\* A fetched timeframe is [name, bars, votes]: votes are the signed points of
\* the five analyses (RSI, price vs SMA 20, EMA 9 vs EMA 21, MACD, 5-bar
\* momentum), each in -2..2, positive for bullish.  A timeframe whose fetch
\* failed is absent from tfs.
TimeframeMinBars(name) == IF name = "Daily" THEN 20 ELSE 10

ClassifyTimeframe(tf) ==
    LET bullish_points == SumSeq([i \in 1..5 |-> Max2(tf.votes[i], 0)])
        bearish_points == SumSeq([i \in 1..5 |-> Max2(0 - tf.votes[i], 0)])
        total_points == 10
    IN  \* pct >= 70, pct >= 50 with pct = points / total_points * 100
        IF bullish_points * 100 >= 70 * total_points
        THEN [name |-> tf.name, signal |-> "BULLISH", strength |-> "Strong"]
        ELSE IF bullish_points * 100 >= 50 * total_points
        THEN [name |-> tf.name, signal |-> "BULLISH", strength |-> "Moderate"]
        ELSE IF bearish_points * 100 >= 70 * total_points
        THEN [name |-> tf.name, signal |-> "BEARISH", strength |-> "Strong"]
        ELSE IF bearish_points * 100 >= 50 * total_points
        THEN [name |-> tf.name, signal |-> "BEARISH", strength |-> "Moderate"]
        ELSE [name |-> tf.name, signal |-> "NEUTRAL", strength |-> "Weak"]

AlignmentScore(aligned, total) ==
    IF total > 0 THEN (aligned * 100) \div total ELSE 50

multi_timeframe_analysis(tfs, position_type) ==
    LET Enough(tf) == tf.bars >= TimeframeMinBars(tf.name)
        timeframes == SelectSeq(tfs, Enough)
        Classified(tf) == tf.bars >= 14
        usable == SelectSeq(timeframes, Classified)
        details == [i \in 1..Len(usable) |-> ClassifyTimeframe(usable[i])]
        favourable == IF position_type = "LONG" THEN "BULLISH" ELSE "BEARISH"
        adverse == IF position_type = "LONG" THEN "BEARISH" ELSE "BULLISH"
        aligned == Cardinality({i \in 1..Len(details) : details[i].signal = favourable})
        against == Cardinality({i \in 1..Len(details) : details[i].signal = adverse})
        total == Len(details)
        alignment_score == AlignmentScore(aligned, total)
        strong_signals == Cardinality({i \in 1..Len(details) : details[i].strength = "Strong"})
    IN  IF timeframes = <<>>
        THEN [signals |-> <<>>, alignment_score |-> 50,
              recommendation |-> "Unable to fetch multi-timeframe data",
              aligned_count |-> 0, against_count |-> 0, total_timeframes |-> 0,
              trend_strength |-> "UNKNOWN"]
        ELSE [signals |-> details, alignment_score |-> alignment_score,
              recommendation |->
                  IF alignment_score >= 80 THEN "All timeframes aligned"
                  ELSE IF alignment_score >= 60 THEN "Most timeframes support"
                  ELSE IF alignment_score >= 40 THEN "Mixed signals"
                  ELSE IF alignment_score >= 20 THEN "Most timeframes against"
                  ELSE "All timeframes against",
              aligned_count |-> aligned, against_count |-> against,
              total_timeframes |-> total,
              trend_strength |-> IF strong_signals >= 2 THEN "STRONG"
                                 ELSE IF strong_signals >= 1 THEN "MODERATE"
                                 ELSE "WEAK"]

MtfDisabled ==
    [signals |-> <<>>, alignment_score |-> 50, recommendation |-> "MTF disabled",
     aligned_count |-> 0, against_count |-> 0, total_timeframes |-> 0,
     trend_strength |-> "UNKNOWN"]

(***************************************************************************)
(* smart_analyze_position                                                  *)
(***************************************************************************)
Alert(priority, type) == [priority |-> priority, type |-> type]

\* faulty variant of Rung: the rung sets the status and appends no alert
RungWithoutAlert(status, action, alert, triggers) == [overall_status |-> status, overall_action |-> action, alerts |-> <<>>, email_triggers |-> triggers]

Rung(status, action, alert, triggers) ==
    [overall_status |-> status, overall_action |-> action,
     alerts |-> alert, email_triggers |-> triggers]

\* the conditions of the rungs on the SL-risk score and the upside score
\* faulty variant of ExtremeRisk: the extreme rung starts at 90
ExtremeRiskAt90(sl_risk) == sl_risk >= 90

ExtremeRisk(sl_risk) == sl_risk >= 80

\* faulty variant of HighRisk: the high rung starts 10 above the threshold
HighRiskPlus10(sl_risk, sl_alert_threshold) == sl_risk >= sl_alert_threshold + 10

HighRisk(sl_risk, sl_alert_threshold) == sl_risk >= sl_alert_threshold + 20

ModerateRisk(sl_risk, sl_alert_threshold) == sl_risk >= sl_alert_threshold

\* faulty variant of StrongUpside: the hold rung starts at 60
StrongUpsideAt60(upside_score) == upside_score >= 60

StrongUpside(upside_score) == upside_score >= 70

FairUpside(upside_score) == upside_score >= 50

\* faulty variant of TrailTriggered: a profit exactly on the trigger does
\* not trail
TrailTriggeredAbove(should_trail, pnl_percent, trail_threshold) == should_trail /\ pnl_percent > trail_threshold

TrailTriggered(should_trail, pnl_percent, trail_threshold) == should_trail /\ pnl_percent >= trail_threshold

\* faulty variant of MtfAgainst: the neutral alignment of 50 counts as
\* against the position
MtfAgainstAtNeutral(enable_mtf, alignment_score, pnl_percent) == enable_mtf /\ alignment_score <= 50 /\ pnl_percent < 0

MtfAgainst(enable_mtf, alignment_score, pnl_percent) == enable_mtf /\ alignment_score < 40 /\ pnl_percent < 0

\* the if / elif chain that fixes overall_status and overall_action
PriorityLadder(sl_hit, sl, target1_hit, target2_hit, upside_score, dynamic_levels, pnl_percent, mtf_result, trail_threshold, sl_alert_threshold, enable_mtf) ==
    IF sl_hit
    THEN Rung("CRITICAL", "EXIT", <<Alert("CRITICAL", "STOP LOSS HIT")>>,
              <<"CRITICAL_SL_HIT">>)
    ELSE IF ExtremeRisk(sl.risk_score)
    THEN Rung("CRITICAL", "EXIT_EARLY", <<Alert("CRITICAL", "EXTREME SL RISK")>>,
              <<"CRITICAL_HIGH_RISK">>)
    ELSE IF sl.is_approaching_sl
    THEN Rung("WARNING", "WATCH_CLOSELY", <<Alert("HIGH", "APPROACHING STOP LOSS")>>,
              <<"APPROACHING_SL">>)
    ELSE IF HighRisk(sl.risk_score, sl_alert_threshold)
    THEN Rung("WARNING", "CONSIDER_EXIT", <<Alert("HIGH", "HIGH SL RISK")>>,
              <<"HIGH_SL_RISK">>)
    ELSE IF ModerateRisk(sl.risk_score, sl_alert_threshold)
    THEN Rung("WARNING", "WATCH", <<Alert("MEDIUM", "MODERATE SL RISK")>>, <<>>)
    ELSE IF target2_hit
    THEN Rung("SUCCESS", "BOOK_PROFITS", <<Alert("HIGH", "TARGET 2 HIT")>>,
              <<"TARGET_HIT">>)
    ELSE IF target1_hit
    THEN (IF StrongUpside(upside_score)
          THEN Rung("OPPORTUNITY", "HOLD_EXTEND",
                    <<Alert("INFO", "TARGET HIT - STRONG HOLD")>>,
                    <<"TARGET_HIT", "TARGET_CHANGE">>)
          ELSE IF FairUpside(upside_score)
          THEN Rung("OPPORTUNITY", "PARTIAL_EXIT",
                    <<Alert("INFO", "TARGET HIT - PARTIAL EXIT")>>, <<"TARGET_HIT">>)
          ELSE Rung("SUCCESS", "BOOK_PROFITS",
                    <<Alert("HIGH", "TARGET HIT - EXIT")>>, <<"TARGET_HIT">>))
    ELSE IF TrailTriggered(dynamic_levels.should_trail, pnl_percent, trail_threshold)
    THEN Rung("GOOD", "TRAIL_SL", <<Alert("MEDIUM", "TRAIL STOP LOSS")>>, <<"SL_CHANGE">>)
    ELSE IF MtfAgainst(enable_mtf, mtf_result.alignment_score, pnl_percent)
    THEN Rung("WARNING", "WATCH", <<Alert("MEDIUM", "MTF WARNING")>>,
              <<"IMPORTANT_UPDATE">>)
    ELSE Rung("OK", "HOLD", <<>>, <<>>)

\* faulty variant of VolumeAlerts: the warning is appended whatever the
\* status is
VolumeAlertsAnyStatus(overall_status, sl_risk, sl_alert_threshold, position_type, volume_signal) ==
    IF sl_risk < sl_alert_threshold
       /\ (\/ position_type = "LONG" /\ volume_signal = "STRONG_SELLING"
           \/ position_type = "SHORT" /\ volume_signal = "STRONG_BUYING")
    THEN <<Alert("LOW", "VOLUME WARNING")>>
    ELSE <<>>

\* the volume warning appended after the ladder
VolumeAlerts(overall_status, sl_risk, sl_alert_threshold, position_type, volume_signal) ==
    IF overall_status # "CRITICAL" /\ sl_risk < sl_alert_threshold
       /\ (\/ position_type = "LONG" /\ volume_signal = "STRONG_SELLING"
           \/ position_type = "SHORT" /\ volume_signal = "STRONG_BUYING")
    THEN <<Alert("LOW", "VOLUME WARNING")>>
    ELSE <<>>

\* the alerts for the first two detected patterns
PatternAlerts(overall_status, position_type, patterns) ==
    LET own == IF position_type = "LONG" THEN "BULLISH" ELSE "BEARISH"
        head2 == IF Len(patterns) <= 2 THEN patterns ELSE SubSeq(patterns, 1, 2)
        Shown(pattern) == /\ pattern.signal # "NEUTRAL"
                          /\ pattern.signal # own
                          /\ overall_status \notin {"CRITICAL", "WARNING"}
        shown == SelectSeq(head2, Shown)
    IN  [i \in 1..Len(shown) |-> Alert("MEDIUM", shown[i].pattern)]

\* pnl_percent in hundredths of a percent
PnlPercent(position_type, entry_price, current_price) ==
    IF position_type = "LONG"
    THEN ((current_price - entry_price) * 10000) \div entry_price
    ELSE ((entry_price - current_price) * 10000) \div entry_price

\* faulty variant of StopHit: a close exactly on the stop is no breach
StopHitStrict(position_type, current_price, stop_loss) ==
    IF position_type = "LONG" THEN current_price < stop_loss
    ELSE current_price > stop_loss

StopHit(position_type, current_price, stop_loss) ==
    IF position_type = "LONG" THEN current_price <= stop_loss
    ELSE current_price >= stop_loss

\* faulty variant of TargetHit: a close exactly on the target is no hit
TargetHitStrict(position_type, current_price, target) ==
    IF position_type = "LONG" THEN current_price > target
    ELSE current_price < target

TargetHit(position_type, current_price, target) ==
    IF position_type = "LONG" THEN current_price >= target
    ELSE current_price <= target

\* faulty variant of AlertList: the supplementary alerts come first
AlertListSupplementaryFirst(ladder, volume, pattern) == volume \o pattern \o ladder

\* the order of the appends: the rung's alert, the volume warning, the
\* pattern alerts
AlertList(ladder, volume, pattern) == ladder \o volume \o pattern

\* the dict smart_analyze_position returns; rung is the outcome of the
\* if / elif chain
AnalysisResult(p, df, pnl_percent, momentum, vol, sr_levels, patterns, sl, upside, dynamic_levels, mtf_result, rung, sl_alert_threshold) ==
    LET position_type == p.position_type
        current_price == df.close
        macd_hist == hist_at(df, 1)
        macd_prev == hist_at(df, 2)
        rsi0 == calculate_rsi(df)
    IN  [kind |-> "result",
         position_type |-> position_type, entry_price |-> p.entry_price,
         current_price |-> current_price,
         prev_close |-> IF df.n > 1 THEN df.close - df.diffs[Len(df.diffs)]
                        ELSE current_price,
         quantity |-> p.quantity, pnl_percent |-> pnl_percent,
         pnl_amount |-> IF position_type = "LONG"
                        THEN (current_price - p.entry_price) * p.quantity
                        ELSE (p.entry_price - current_price) * p.quantity,
         stop_loss |-> p.stop_loss, target1 |-> p.target1, target2 |-> p.target2,
         rsi |-> IF isna(rsi0) THEN 50 ELSE rsi0,
         macd_hist |-> macd_hist,
         macd_signal |-> IF macd_hist > 0 THEN "BULLISH" ELSE "BEARISH",
         macd_trend |-> IF macd_hist > macd_prev THEN "RISING" ELSE "FALLING",
         momentum_score |-> momentum.score, momentum_trend |-> momentum.trend,
         volume_signal |-> vol.signal, volume_ratio |-> vol.volume_ratio,
         volume_trend |-> vol.volume_trend,
         support |-> sr_levels.nearest_support, resistance |-> sr_levels.nearest_resistance,
         patterns |-> patterns,
         sl_risk |-> sl.risk_score, sl_reasons |-> sl.reasons,
         sl_recommendation |-> sl.recommendation, sl_priority |-> sl.priority,
         distance_to_sl |-> sl.distance_pct, is_approaching_sl |-> sl.is_approaching_sl,
         upside_score |-> upside.score, upside_rec |-> upside.recommendation,
         new_target |-> upside.new_target,
         trail_stop |-> dynamic_levels.trail_stop,
         should_trail |-> dynamic_levels.should_trail,
         trail_action |-> dynamic_levels.trail_action,
         trail_improvement |-> dynamic_levels.trail_improvement,
         dynamic_target1 |-> dynamic_levels.target1,
         dynamic_target2 |-> dynamic_levels.target2,
         atr |-> dynamic_levels.atr,
         target1_hit |-> TargetHit(position_type, current_price, p.target1),
         target2_hit |-> TargetHit(position_type, current_price, p.target2),
         sl_hit |-> StopHit(position_type, current_price, p.stop_loss),
         mtf_alignment |-> mtf_result.alignment_score,
         mtf_recommendation |-> mtf_result.recommendation,
         alerts |-> AlertList(rung.alerts,
                              VolumeAlerts(rung.overall_status, sl.risk_score,
                                           sl_alert_threshold, position_type, vol.signal),
                              PatternAlerts(rung.overall_status, position_type, patterns)),
         email_triggers |-> rung.email_triggers,
         overall_status |-> rung.overall_status, overall_action |-> rung.overall_action,
         df |-> df]

\* the scores and levels computed before the if / elif chain, and the chain
AnalyzeWith(p, cfg, df, pnl_percent, sl, upside, dynamic_levels, mtf_result) ==
    AnalysisResult(p, df, pnl_percent, calculate_momentum_score(df), analyze_volume(df),
                   find_support_resistance(df), detect_chart_patterns(df), sl, upside,
                   dynamic_levels, mtf_result,
                   PriorityLadder(StopHit(p.position_type, df.close, p.stop_loss), sl,
                                  TargetHit(p.position_type, df.close, p.target1),
                                  TargetHit(p.position_type, df.close, p.target2),
                                  upside.score, dynamic_levels, pnl_percent, mtf_result,
                                  cfg.trail_threshold, cfg.sl_alert_threshold,
                                  cfg.enable_mtf),
                   cfg.sl_alert_threshold)

\* df is the history the call fetches, tfs the timeframes that
\* multi_timeframe_analysis fetches
smart_analyze_position(p, cfg, df, tfs) ==
    IF df.n = 0 THEN [kind |-> "none"]
    ELSE IF analyze_volume_raises(df) THEN [kind |-> "raised", error |-> "IndexError"]
    ELSE
    LET position_type == p.position_type
        current_price == df.close
        pnl_percent == PnlPercent(position_type, p.entry_price, current_price)
        target1_hit == TargetHit(position_type, current_price, p.target1)
        sl_hit == StopHit(position_type, current_price, p.stop_loss)
    IN  AnalyzeWith(p, cfg, df, pnl_percent,
            predict_sl_risk(df, current_price, p.stop_loss, position_type, p.entry_price,
                            cfg.sl_alert_threshold, cfg.sl_approach_threshold),
            IF target1_hit /\ ~sl_hit
            THEN predict_upside_potential(df, current_price, p.target1, p.target2,
                                          position_type)
            ELSE [score |-> 0, new_target |-> p.target2 * Scale, recommendation |-> ""],
            calculate_dynamic_levels(df, p.entry_price, current_price, p.stop_loss,
                                     position_type, pnl_percent, cfg.trail_threshold),
            IF cfg.enable_mtf THEN multi_timeframe_analysis(tfs, position_type)
            ELSE MtfDisabled)

(***************************************************************************)
(* The bounded family of inputs                                            *)
(***************************************************************************)
\* lengths of the histories: one bar, a history shorter than every warm-up
\* window, a history longer than every window
ShortBars == 5

MaxBars == 60

\* last closes around an entry price of 200
Closes == {190, 196, 199, 200, 201, 204, 210, 220}

TakeLast(s, k) == IF k <= 0 THEN <<>> ELSE LastN(s, k)

\* A history of n bars closing at c.  t in -1..1 is the direction of the
\* recent move (falling, flat, rising), o in -2..2 the state of the
\* oscillators (oversold .. overbought), v the volume of the last bar
\* (0 none, 1 average, 2 twice the average), s the structure found in the
\* window (0 none, 1 wide range with pivots and a double top, 2 pivots and
\* a double bottom).
History(n, c, t, o, v, s) ==
    [n |-> n, close |-> c,
     diffs |-> TakeLast(IF t = 0 THEN <<1, -1, 1, 0>> ELSE <<t, t, t, t>>, n - 1),
     hist |-> IF n = 1 THEN <<0>> ELSE TakeLast(<<t, 2 * t, 4 * t>>, n),
     gain |-> CASE o = -2 -> 3 [] o = -1 -> 1 [] o = 0 -> 1 [] o = 1 -> 3 [] OTHER -> 17,
     loss |-> CASE o = -2 -> 17 [] o = -1 -> 3 [] o = 0 -> 1 [] o = 1 -> 1 [] OTHER -> 3,
     mean |-> c - 2 * t, sma20 |-> c - 2 * t, sma50 |-> c - 4 * t,
     ema9 |-> c - t, ema21 |-> c - 3 * t,
     ret5 |-> 5 * t, ret10 |-> 10 * t, ret20 |-> 20 * t,
     adx |-> IF t = 0 THEN 15 ELSE 35,
     stoch_k |-> 50 + 20 * o, stoch_d |-> 50 + 15 * o,
     bb_upper |-> c + 10 - 4 * o - 5 * t, bb_lower |-> c - 10 - 4 * o - 5 * t,
     volume |-> v * 1000,
     vol20 |-> IF n = 1 THEN v * 1000 ELSE 1000,
     vol5 |-> IF n = 1 THEN v * 1000 ELSE IF n > 5 /\ v = 2 THEN 1200 ELSE 1000,
     atr |-> IF s = 1 THEN 8 ELSE 2,
     pivot_lows |-> IF s = 0 THEN <<>> ELSE <<c + 3, c - 4, c - 5>>,
     pivot_highs |-> IF s = 0 THEN <<>> ELSE <<c + 4, c - 3>>,
     patterns |-> CASE s = 1 -> <<[pattern |-> "DOUBLE_TOP", signal |-> "BEARISH"],
                                  [pattern |-> "CONSOLIDATION", signal |-> "NEUTRAL"]>>
                    [] s = 2 -> <<[pattern |-> "DOUBLE_BOTTOM", signal |-> "BULLISH"]>>
                    [] OTHER -> <<>>]

EmptyHistory == [n |-> 0]

\* the histories a fetch may return when the last close is c
Histories(c) ==
    {History(1, c, 0, 0, v, 0) : v \in {0, 1}}
    \cup {History(ShortBars, c, t, 0, 1, 0) : t \in -1..1}
    \cup {History(MaxBars, c, t, o, v, s) : t \in -1..1, o \in {-1, 1}, v \in 1..2, s \in 0..2}

\* what multi_timeframe_analysis may fetch: nothing, a daily history that
\* votes bearish, a daily history that votes bullish
Tf(name, bars, vote) == [name |-> name, bars |-> bars, votes |-> [i \in 1..5 |-> vote]]

FetchedTimeframes ==
    {<<>>, <<Tf("Daily", 60, -2)>>, <<Tf("Daily", 60, 2)>>}

\* rows of the portfolio sheet; Target_2 = NaN stands for a sheet without
\* the Target_2 column.  The stops 208 (LONG) and 192 (SHORT) are stops
\* the user has trailed past the entry price.
Rows ==
    {[Position |-> "LONG", Entry_Price |-> 200, Quantity |-> 10, Stop_Loss |-> sl,
      Target_1 |-> t[1], Target_2 |-> t[2]] :
        sl \in {190, 198, 208}, t \in {<<204, 210>>, <<220, NaN>>}}
    \cup
    {[Position |-> "SHORT", Entry_Price |-> 200, Quantity |-> 10, Stop_Loss |-> sl,
      Target_1 |-> t[1], Target_2 |-> t[2]] :
        sl \in {210, 202, 192}, t \in {<<196, 190>>, <<190, NaN>>}}

\* the sidebar sliders (thresholds in percent, trail and approach in
\* hundredths of a percent)
Setting(trail, alert, approach, mtf) ==
    [trail_threshold |-> trail, sl_alert_threshold |-> alert,
     sl_approach_threshold |-> approach, enable_mtf |-> mtf]

Settings ==
    {Setting(200, 50, 200, TRUE), Setting(200, 90, 200, TRUE),
     Setting(200, 50, 500, TRUE), Setting(1000, 50, 200, TRUE),
     Setting(200, 50, 200, FALSE), Setting(1000, 90, 500, FALSE)}

DefaultSettings == Setting(200, 50, 200, TRUE)

(***************************************************************************)
(* Email alerts.  session_state holds the cooldown store of the browser    *)
(* session, now is datetime.now() in minutes, and mailbox is the set of    *)
(* messages the SMTP server accepted, each with the hash it was sent for,  *)
(* the minute of the delivery, the cooldown in force and its rank among    *)
(* the messages for that hash.  The md5 digest                             *)
(* of an alert string is represented by the parts of the string.  The      *)
(* email log is represented by its number of entries.                      *)
(***************************************************************************)
EmptyDict == [k \in {} |-> 0]

Put(dict, key, value) == [k \in DOMAIN dict \cup {key} |-> IF k = key THEN value ELSE dict[k]]

LogLimit == 50

\* st.session_state after the initialisation at the top of the script
NewSession == [last_email_time |-> EmptyDict, email_sent_alerts |-> {}, email_log |-> 0]

generate_alert_hash(ticker, alert_type, key_value) == <<ticker, alert_type>> \o key_value

can_send_email(state, alert_hash, cooldown_minutes, at) ==
    IF alert_hash \notin DOMAIN state.last_email_time
    THEN TRUE
    ELSE at - state.last_email_time[alert_hash] >= cooldown_minutes

\* faulty variant of mark_email_sent: the flag is set but the time of the
\* delivery is not stored
mark_email_sent_flag_only(state, alert_hash, at) == [state EXCEPT !.email_sent_alerts = @ \cup {alert_hash}]

mark_email_sent(state, alert_hash, at) == [state EXCEPT !.last_email_time = Put(@, alert_hash, at), !.email_sent_alerts = @ \cup {alert_hash}]

log_email(state) == [state EXCEPT !.email_log = IF @ + 1 > LogLimit THEN LogLimit ELSE @ + 1]

\* smtp is what the SMTP conversation does once the credentials are present
send_email_alert(sender, password, recipient, smtp) ==
    IF sender = "" \/ password = "" \/ recipient = ""
    THEN [success |-> FALSE, msg |-> "Missing email credentials"]
    ELSE IF smtp = "delivered"
    THEN [success |-> TRUE, msg |-> "Email sent successfully"]
    ELSE IF smtp = "SMTPAuthenticationError"
    THEN [success |-> FALSE, msg |-> "Authentication failed - check App Password"]
    ELSE IF smtp = "SMTPRecipientsRefused"
    THEN [success |-> FALSE, msg |-> "Invalid recipient email"]
    ELSE [success |-> FALSE, msg |-> "Email failed"]

SmtpOutcomes == {"delivered", "SMTPAuthenticationError", "SMTPRecipientsRefused", "Exception"}

\* the alert types that have a "Send ... Email" block, in the order of the
\* blocks
AlertTypes == <<"CRITICAL", "TARGET", "SL_APPROACH", "SL_CHANGE", "TARGET_CHANGE">>

TypeTriggers(alert_type) ==
    CASE alert_type = "CRITICAL" -> {"CRITICAL_SL_HIT", "CRITICAL_HIGH_RISK"}
      [] alert_type = "TARGET" -> {"TARGET_HIT"}
      [] alert_type = "SL_APPROACH" -> {"APPROACHING_SL", "HIGH_SL_RISK"}
      [] alert_type = "SL_CHANGE" -> {"SL_CHANGE"}
      [] alert_type = "TARGET_CHANGE" -> {"TARGET_CHANGE"}

TypeEnabled(email_settings, alert_type) ==
    CASE alert_type = "CRITICAL" -> email_settings.on_critical
      [] alert_type = "TARGET" -> email_settings.on_target
      [] alert_type = "SL_APPROACH" -> email_settings.on_sl_approach
      [] alert_type = "SL_CHANGE" -> email_settings.on_sl_change
      [] alert_type = "TARGET_CHANGE" -> email_settings.on_target_change

\* the results that the categorising loop appends to the list of a type
Categorize(results, alert_type) ==
    SelectSeq(results, LAMBDA r : \E i \in DOMAIN r.email_triggers : r.email_triggers[i] \in TypeTriggers(alert_type))

\* f"{level:.0f}" of a level held in 1 / Scale rupee
FormatRupees(level) == (level + Scale \div 2) \div Scale

RECURSIVE KeyValue(_, _)
\* the parts that "_".join(...) strings together for the hash of a block
KeyValue(alert_type, listed) ==
    IF listed = <<>>
    THEN <<>>
    ELSE LET r == Head(listed)
         IN (IF alert_type = "SL_CHANGE" THEN <<r.ticker, FormatRupees(r.trail_stop)>>
             ELSE IF alert_type = "TARGET_CHANGE" THEN <<r.ticker, FormatRupees(r.new_target)>>
             ELSE <<r.ticker>>) \o KeyValue(alert_type, Tail(listed))

BlockHash(results, alert_type) == generate_alert_hash("PORTFOLIO", alert_type, KeyValue(alert_type, Categorize(results, alert_type)))

ListedTickers(listed) == [i \in DOMAIN listed |-> listed[i].ticker]

\* faulty variant of AfterSend: the alert is marked whatever the outcome of
\* the send
AfterSendMarkAlways(state, alert_hash, success, at) == log_email(mark_email_sent(state, alert_hash, at))

\* the if success / else that follows send_email_alert in every block
AfterSend(state, alert_hash, success, at) ==
    IF success
    THEN log_email(mark_email_sent(state, alert_hash, at))
    ELSE log_email(state)

\* the blocks that reach send_email_alert in a cycle; the hashes of two
\* blocks differ, so a block does not change what a later block may send
Attempted(results, email_settings, state, at) ==
    {AlertTypes[i] : i \in {j \in DOMAIN AlertTypes : /\ email_settings.enabled
                                                      /\ Categorize(results, AlertTypes[j]) # <<>>
                                                      /\ TypeEnabled(email_settings, AlertTypes[j])
                                                      /\ can_send_email(state, BlockHash(results, AlertTypes[j]), email_settings.cooldown, at)}}

\* one "Send ... Email" block; acc carries the session state, email_actions
\* and the messages delivered so far in the cycle
SendBlock(acc, alert_type, listed, alert_hash, email_settings, smtp, at) ==
    IF listed = <<>> \/ ~TypeEnabled(email_settings, alert_type)
    THEN acc
    ELSE IF ~can_send_email(acc.state, alert_hash, email_settings.cooldown, at)
    THEN acc
    ELSE LET sent == send_email_alert(email_settings.sender, email_settings.password, email_settings.recipient, smtp[alert_type])
         IN [state |-> AfterSend(acc.state, alert_hash, sent.success, at),
             email_actions |-> Append(acc.email_actions, <<alert_type, ListedTickers(listed), sent.success>>),
             delivered |-> IF sent.success
                           THEN Append(acc.delivered, [alert_hash |-> alert_hash, at |-> at, cooldown |-> email_settings.cooldown])
                           ELSE acc.delivered]

RECURSIVE SendBlocks(_, _, _, _, _, _)
SendBlocks(acc, i, results, email_settings, smtp, at) ==
    IF i > Len(AlertTypes)
    THEN acc
    ELSE SendBlocks(SendBlock(acc, AlertTypes[i], Categorize(results, AlertTypes[i]), BlockHash(results, AlertTypes[i]), email_settings, smtp, at),
                    i + 1, results, email_settings, smtp, at)

process_and_send_emails(state, results, email_settings, smtp, at) ==
    IF ~email_settings.enabled
    THEN [state |-> state, email_actions |-> <<>>, delivered |-> <<>>]
    ELSE SendBlocks([state |-> state, email_actions |-> <<>>, delivered |-> <<>>], 1, results, email_settings, smtp, at)

(***************************************************************************)
(* The dashboard: one run of main() per refresh                            *)
(***************************************************************************)
Init ==
    /\ pc = "start"
    /\ config = DefaultSettings
    /\ position = None
    /\ result = None
    /\ args = None
    /\ ret = None
    /\ session_state = NewSession
    /\ now = 0
    /\ mailbox = {}

\* the user moves the sidebar sliders
SetSidebar ==
    /\ pc = "start"
    /\ config' \in Settings
    /\ pc' = "configured"
    /\ UNCHANGED <<position, result, args, ret, session_state, now, mailbox>>

\* main() reads a row of the portfolio and builds the call's arguments
LoadPortfolio ==
    /\ pc = "configured"
    /\ \E row \in Rows :
         position' = [position_type |-> row.Position,
                      entry_price |-> row.Entry_Price,
                      quantity |-> row.Quantity,
                      stop_loss |-> row.Stop_Loss,
                      target1 |-> row.Target_1,
                      target2 |-> IF isna(row.Target_2)
                                  THEN (row.Target_1 * 11) \div 10
                                  ELSE row.Target_2]
    /\ pc' = "loaded"
    /\ UNCHANGED <<config, result, args, ret, session_state, now, mailbox>>

\* smart_analyze_position fetches the history and evaluates the position
SmartAnalyze ==
    /\ pc = "loaded"
    /\ \E c \in Closes :
         \E df \in Histories(c) \cup {EmptyHistory} :
           \* multi_timeframe_analysis fetches only when the analysis is enabled
           \E tfs \in IF config.enable_mtf THEN FetchedTimeframes ELSE {<<>>} :
             /\ args' = [df |-> df, tfs |-> tfs]
             /\ result' = smart_analyze_position(position, config, df, tfs)
    /\ pc' = "analyzed"
    /\ UNCHANGED <<config, position, ret, session_state, now, mailbox>>

\* the page reruns (refresh button or auto-refresh)
Rerun ==
    /\ pc = "analyzed"
    /\ pc' = "start"
    /\ position' = None
    /\ args' = None
    /\ result' = None
    /\ UNCHANGED <<config, ret, session_state, now, mailbox>>

Next == SetSidebar \/ LoadPortfolio \/ SmartAnalyze \/ Rerun

Spec == Init /\ [][Next]_vars

(***************************************************************************)
(* The three scorers, each applied to a drawn history and position         *)
(***************************************************************************)
\* a history between the warm-up windows: RSI, ATR and Bollinger bands are
\* defined, ADX, the SMA 50 and the pattern scan are not
MidBars == 20

ScoreHistories(c) ==
    {History(1, c, 0, 0, v, 0) : v \in {0, 1}}
    \cup {History(ShortBars, c, t, 0, v, 0) : t \in -1..1, v \in 0..2}
    \cup {History(n, c, t, o, v, s) :
            n \in {MidBars, MaxBars}, t \in -1..1, o \in -2..2, v \in 0..2, s \in 0..2}

ScoreArgs ==
    {[df |-> df, position_type |-> row.Position, entry_price |-> row.Entry_Price,
      stop_loss |-> row.Stop_Loss, target1 |-> row.Target_1, target2 |-> row.Target_2,
      sl_alert_threshold |-> 50, sl_approach_threshold |-> approach] :
        df \in UNION {ScoreHistories(c) : c \in Closes},
        row \in {r \in Rows : ~isna(r.Target_2)},
        approach \in {200, 500}}

Score(fn, score) == [kind |-> "score", fn |-> fn, score |-> score]

Raised(error) == [kind |-> "raised", error |-> error]

InitScores ==
    /\ pc = "scores_call"
    /\ args \in ScoreArgs
    /\ ret = None
    /\ config = DefaultSettings
    /\ position = None
    /\ result = None
    /\ session_state = NewSession
    /\ now = 0
    /\ mailbox = {}

CallMomentumScore ==
    /\ pc = "scores_call"
    /\ ret' = Score("calculate_momentum_score", calculate_momentum_score(args.df).score)
    /\ pc' = "scores_returned"
    /\ UNCHANGED <<config, position, result, args, session_state, now, mailbox>>

CallPredictSlRisk ==
    /\ pc = "scores_call"
    /\ ret' = IF analyze_volume_raises(args.df) THEN Raised("IndexError")
              ELSE Score("predict_sl_risk",
                         predict_sl_risk(args.df, args.df.close, args.stop_loss,
                                         args.position_type, args.entry_price,
                                         args.sl_alert_threshold,
                                         args.sl_approach_threshold).risk_score)
    /\ pc' = "scores_returned"
    /\ UNCHANGED <<config, position, result, args, session_state, now, mailbox>>

CallPredictUpsidePotential ==
    /\ pc = "scores_call"
    /\ ret' = IF analyze_volume_raises(args.df) THEN Raised("IndexError")
              ELSE Score("predict_upside_potential",
                         predict_upside_potential(args.df, args.df.close, args.target1,
                                                  args.target2, args.position_type).score)
    /\ pc' = "scores_returned"
    /\ UNCHANGED <<config, position, result, args, session_state, now, mailbox>>

NextScores == CallMomentumScore \/ CallPredictSlRisk \/ CallPredictUpsidePotential

SpecScores == InitScores /\ [][NextScores]_vars

(***************************************************************************)
(* calculate_dynamic_levels applied to a drawn history, position and P&L   *)
(***************************************************************************)
\* pnl_percent, in hundredths of a percent, is a parameter of its own
PnlValues == {-500, 0, 20, 75, 99, 100, 150, 200, 400, 499, 500, 600, 800, 1000, 2000, 4000}

TrailTriggers == {50, 200, 1000}

LevelHistories(c) ==
    {History(ShortBars, c, 0, 0, 1, 0)}
    \cup {History(MaxBars, c, 0, 0, 1, s) : s \in 0..2}

LevelArgs ==
    {[df |-> df, entry_price |-> 200, current_price |-> df.close, stop_loss |-> sl[2],
      position_type |-> sl[1], pnl_percent |-> pnl, trail_trigger |-> trigger] :
        df \in UNION {LevelHistories(c) : c \in Closes},
        sl \in {<<"LONG", 190>>, <<"LONG", 198>>, <<"SHORT", 210>>, <<"SHORT", 202>>},
        pnl \in PnlValues, trigger \in TrailTriggers}

InitLevels ==
    /\ pc = "levels_call"
    /\ args \in LevelArgs
    /\ ret = None
    /\ config = DefaultSettings
    /\ position = None
    /\ result = None
    /\ session_state = NewSession
    /\ now = 0
    /\ mailbox = {}

CallCalculateDynamicLevels ==
    /\ pc = "levels_call"
    /\ ret' = calculate_dynamic_levels(args.df, args.entry_price, args.current_price,
                                       args.stop_loss, args.position_type,
                                       args.pnl_percent, args.trail_trigger)
    /\ pc' = "levels_returned"
    /\ UNCHANGED <<config, position, result, args, session_state, now, mailbox>>

NextLevels == CallCalculateDynamicLevels

SpecLevels == InitLevels /\ [][NextLevels]_vars

(***************************************************************************)
(* predict_sl_risk and predict_upside_potential with the whole of what     *)
(* they return, for several alert thresholds                               *)
(***************************************************************************)
\* the alert thresholds of the slider: its lowest value, its default, the
\* start of the fixed CRITICAL band, its highest value
AlertThresholds == {30, 50, 75, 90}

RecArgs ==
    {[df |-> df, position_type |-> row.Position, entry_price |-> row.Entry_Price,
      stop_loss |-> row.Stop_Loss, target1 |-> row.Target_1, target2 |-> row.Target_2,
      sl_alert_threshold |-> threshold, sl_approach_threshold |-> 200] :
        df \in UNION {ScoreHistories(c) : c \in Closes},
        row \in {r \in Rows : ~isna(r.Target_2) /\ r.Stop_Loss \in {190, 198, 210, 202}},
        threshold \in AlertThresholds}

Returned(fn, value) == [kind |-> "returned", fn |-> fn, value |-> value]

InitRecs ==
    /\ pc = "recs_call"
    /\ args \in RecArgs
    /\ ret = None
    /\ config = DefaultSettings
    /\ position = None
    /\ result = None
    /\ session_state = NewSession
    /\ now = 0
    /\ mailbox = {}

CallSlRiskRecommendation ==
    /\ pc = "recs_call"
    /\ ret' = IF analyze_volume_raises(args.df) THEN Raised("IndexError")
              ELSE Returned("predict_sl_risk",
                            predict_sl_risk(args.df, args.df.close, args.stop_loss,
                                            args.position_type, args.entry_price,
                                            args.sl_alert_threshold,
                                            args.sl_approach_threshold))
    /\ pc' = "recs_returned"
    /\ UNCHANGED <<config, position, result, args, session_state, now, mailbox>>

CallUpsideRecommendation ==
    /\ pc = "recs_call"
    /\ ret' = IF analyze_volume_raises(args.df) THEN Raised("IndexError")
              ELSE Returned("predict_upside_potential",
                            predict_upside_potential(args.df, args.df.close, args.target1,
                                                     args.target2, args.position_type))
    /\ pc' = "recs_returned"
    /\ UNCHANGED <<config, position, result, args, session_state, now, mailbox>>

NextRecs == CallSlRiskRecommendation \/ CallUpsideRecommendation

SpecRecs == InitRecs /\ [][NextRecs]_vars

(***************************************************************************)
(* Two calls of predict_sl_risk that differ in sl_alert_threshold only     *)
(***************************************************************************)
PairArgs ==
    {a \in RecArgs : a.df.n \in {ShortBars, MaxBars} /\ a.df.volume # 0}

InitPair ==
    /\ pc = "pair_call"
    /\ args \in PairArgs
    /\ ret = None
    /\ config = DefaultSettings
    /\ position = None
    /\ result = None
    /\ session_state = NewSession
    /\ now = 0
    /\ mailbox = {}

\* the first call, with the threshold of args
CallSlRiskFirst ==
    /\ pc = "pair_call"
    /\ ret' = [kind |-> "first",
               first |-> predict_sl_risk(args.df, args.df.close, args.stop_loss,
                                         args.position_type, args.entry_price,
                                         args.sl_alert_threshold,
                                         args.sl_approach_threshold)]
    /\ pc' = "pair_first_returned"
    /\ UNCHANGED <<config, position, result, args, session_state, now, mailbox>>

\* the second call, with another threshold and the same other arguments
CallSlRiskSecond ==
    /\ pc = "pair_first_returned"
    /\ \E other \in AlertThresholds \ {args.sl_alert_threshold} :
         ret' = [kind |-> "pair", first |-> ret.first, other_threshold |-> other,
                 second |-> predict_sl_risk(args.df, args.df.close, args.stop_loss,
                                            args.position_type, args.entry_price,
                                            other, args.sl_approach_threshold)]
    /\ pc' = "pair_returned"
    /\ UNCHANGED <<config, position, result, args, session_state, now, mailbox>>

NextPair == CallSlRiskFirst \/ CallSlRiskSecond

SpecPair == InitPair /\ [][NextPair]_vars

(***************************************************************************)
(* predict_sl_risk on two stops at increasing distance from one close      *)
(***************************************************************************)
\* offsets of the stop from a close of 200, in rupees on the losing side:
\* distances of -1 %, 0 %, 0.5 % .. 12.5 %
StopOffsets == {-2, 0, 1, 2, 3, 4, 5, 6, 8, 9, 10, 12, 15, 20, 25}

\* the values of the sl_approach_threshold slider: 1.0 to 5.0 in steps of 0.5
ApproachThresholds == {100 + 50 * k : k \in 0..8}

DistanceHistories ==
    {History(ShortBars, 200, t, 0, 1, 0) : t \in -1..1}
    \cup {History(MaxBars, 200, t, -1, 2, s) : t \in {-1, 1}, s \in 0..1}

\* near and far are two offsets with near <= far
DistanceArgs ==
    {[df |-> df, position_type |-> position_type, entry_price |-> 200,
      near |-> pair[1], far |-> pair[2], sl_approach_threshold |-> approach] :
        df \in DistanceHistories, position_type \in {"LONG", "SHORT"},
        pair \in {p \in StopOffsets \X StopOffsets : p[1] <= p[2]},
        approach \in ApproachThresholds}

\* the stop at the given offset on the losing side of the close
StopAt(position_type, current_price, offset) ==
    IF position_type = "LONG" THEN current_price - offset ELSE current_price + offset

\* what one call shows of the distance term: the distance, the points of its
\* band, the final score
DistanceTermOf(sl, sl_approach_threshold) ==
    [distance_pct |-> sl.distance_pct,
     points |-> DistancePoints(DistanceBand(sl.distance_pct, sl_approach_threshold)),
     risk_score |-> sl.risk_score]

InitDistance ==
    /\ pc = "distance_call"
    /\ args \in DistanceArgs
    /\ ret = None
    /\ config = DefaultSettings
    /\ position = None
    /\ result = None
    /\ session_state = NewSession
    /\ now = 0
    /\ mailbox = {}

CallSlRiskNear ==
    /\ pc = "distance_call"
    /\ ret' = [kind |-> "near",
               near |-> DistanceTermOf(
                   predict_sl_risk(args.df, args.df.close,
                                   StopAt(args.position_type, args.df.close, args.near),
                                   args.position_type, args.entry_price, 50,
                                   args.sl_approach_threshold),
                   args.sl_approach_threshold)]
    /\ pc' = "distance_near_returned"
    /\ UNCHANGED <<config, position, result, args, session_state, now, mailbox>>

CallSlRiskFar ==
    /\ pc = "distance_near_returned"
    /\ ret' = [kind |-> "both", near |-> ret.near,
               far |-> DistanceTermOf(
                   predict_sl_risk(args.df, args.df.close,
                                   StopAt(args.position_type, args.df.close, args.far),
                                   args.position_type, args.entry_price, 50,
                                   args.sl_approach_threshold),
                   args.sl_approach_threshold)]
    /\ pc' = "distance_returned"
    /\ UNCHANGED <<config, position, result, args, session_state, now, mailbox>>

NextDistance == CallSlRiskNear \/ CallSlRiskFar

SpecDistance == InitDistance /\ [][NextDistance]_vars

(***************************************************************************)
(* smart_analyze_position on histories around the RSI warm-up              *)
(***************************************************************************)
\* the longest history of this family: two bars more than RsiPeriod
WarmupBars == 16

WarmupArgs ==
    {[df |-> History(n, c, t, o, 1, 0),
      p |-> [position_type |-> position_type, entry_price |-> 200, quantity |-> 10,
             stop_loss |-> IF position_type = "LONG" THEN 190 ELSE 210,
             target1 |-> IF position_type = "LONG" THEN 220 ELSE 180,
             target2 |-> IF position_type = "LONG" THEN 242 ELSE 198]] :
        n \in 2..WarmupBars, c \in {199, 204}, t \in {-1, 1}, o \in {-2, -1, 1, 2},
        position_type \in {"LONG", "SHORT"}}

InitWarmup ==
    /\ pc = "warmup_call"
    /\ args \in WarmupArgs
    /\ ret = None
    /\ config = DefaultSettings
    /\ position = None
    /\ result = None
    /\ session_state = NewSession
    /\ now = 0
    /\ mailbox = {}

AnalyzeWarmup ==
    /\ pc = "warmup_call"
    /\ result' = smart_analyze_position(args.p, config, args.df, <<>>)
    /\ pc' = "warmup_analyzed"
    /\ UNCHANGED <<config, position, args, ret, session_state, now, mailbox>>

NextWarmup == AnalyzeWarmup

SpecWarmup == InitWarmup /\ [][NextWarmup]_vars

(***************************************************************************)
(* multi_timeframe_analysis applied to drawn timeframes                    *)
(***************************************************************************)
\* what the fetch of one timeframe may give: nothing (None), a history too
\* short to be kept or to be classified, a history of 60 bars that votes
\* strongly bearish, neutral or moderately bullish
FetchOutcomes(name) ==
    {None}
    \cup {Tf(name, bars, 2) : bars \in {9, 12, 19}}
    \cup {Tf(name, 60, vote) : vote \in {-2, 0, 1}}

\* the fetched timeframes in the order of the fetches, failed ones left out
Fetched(daily, weekly, hourly, min15) ==
    SelectSeq(<<daily, weekly, hourly, min15>>, LAMBDA tf : tf # None)

MtfArgs ==
    {[tfs |-> Fetched(daily, weekly, hourly, min15), position_type |-> position_type] :
        daily \in FetchOutcomes("Daily"), weekly \in FetchOutcomes("Weekly"),
        hourly \in FetchOutcomes("Hourly"), min15 \in FetchOutcomes("15min"),
        position_type \in {"LONG", "SHORT"}}

InitMtf ==
    /\ pc = "mtf_call"
    /\ args \in MtfArgs
    /\ ret = None
    /\ config = DefaultSettings
    /\ position = None
    /\ result = None
    /\ session_state = NewSession
    /\ now = 0
    /\ mailbox = {}

CallMultiTimeframeAnalysis ==
    /\ pc = "mtf_call"
    /\ ret' = multi_timeframe_analysis(args.tfs, args.position_type)
    /\ pc' = "mtf_returned"
    /\ UNCHANGED <<config, position, result, args, session_state, now, mailbox>>

NextMtf == CallMultiTimeframeAnalysis

SpecMtf == InitMtf /\ [][NextMtf]_vars

(***************************************************************************)
(* Refresh cycles of the dashboard with the email sidebar                  *)
(***************************************************************************)
Cooldowns == {5, 10}

\* minutes between two runs of the script
RefreshMinutes == {5}

MaxClock == 10

\* the sidebar with "Enable Email Alerts" unchecked
DisabledEmail ==
    [enabled |-> FALSE, sender |-> "", password |-> "", recipient |-> "",
     on_critical |-> FALSE, on_target |-> FALSE, on_sl_approach |-> FALSE,
     on_sl_change |-> FALSE, on_target_change |-> FALSE, on_important |-> FALSE,
     cooldown |-> 15]

EmailSettings ==
    {DisabledEmail} \cup
    {[enabled |-> TRUE, sender |-> "you@gmail.com", password |-> sidebar[1],
      recipient |-> "you@gmail.com", on_critical |-> sidebar[2], on_target |-> TRUE,
      on_sl_approach |-> TRUE, on_sl_change |-> TRUE, on_target_change |-> TRUE,
      on_important |-> TRUE, cooldown |-> cooldown] :
        sidebar \in {<<"app password", TRUE>>, <<"", TRUE>>, <<"app password", FALSE>>},
        cooldown \in Cooldowns}

Analysed(ticker, email_triggers, trail_stop, new_target) ==
    [ticker |-> ticker, email_triggers |-> email_triggers, trail_stop |-> trail_stop,
     new_target |-> new_target]

\* the results of a run, with the triggers that the if / elif chain gives
ResultLists ==
    {<<Analysed("TCS", <<"CRITICAL_SL_HIT">>, 190 * Scale, 220 * Scale)>>,
     <<Analysed("TCS", <<"CRITICAL_SL_HIT">>, 190 * Scale, 220 * Scale),
       Analysed("INFY", <<"SL_CHANGE">>, 195 * Scale, 180 * Scale)>>,
     <<Analysed("INFY", <<"SL_CHANGE">>, 195 * Scale + 4000, 180 * Scale)>>,
     <<Analysed("TCS", <<"IMPORTANT_UPDATE">>, 190 * Scale, 220 * Scale)>>}

\* a message accepted by the SMTP server, numbered among those for its hash
Delivery(box, sent) ==
    [alert_hash |-> sent.alert_hash, at |-> sent.at, cooldown |-> sent.cooldown,
     nth |-> Cardinality({d \in box : d.alert_hash = sent.alert_hash}) + 1]

InitEmail ==
    /\ pc = "idle"
    /\ config = DisabledEmail
    /\ position = None
    /\ result = None
    /\ args = None
    /\ ret = None
    /\ session_state = NewSession
    /\ now = 0
    /\ mailbox = {}

\* the user changes the email section of the sidebar
SetEmailSidebar ==
    /\ pc = "idle"
    /\ config' \in EmailSettings \ {config}
    /\ UNCHANGED <<pc, position, result, args, ret, session_state, now, mailbox>>

\* main() calls process_and_send_emails with the results of the run
ProcessAndSendEmails ==
    /\ pc = "idle"
    /\ \E results \in ResultLists :
         \E smtp \in [Attempted(results, config, session_state, now) -> SmtpOutcomes] :
           LET done == process_and_send_emails(session_state, results, config, smtp, now)
           IN /\ args' = [results |-> results, smtp |-> smtp]
              /\ ret' = done.email_actions
              /\ session_state' = done.state
              /\ mailbox' = mailbox \cup {Delivery(mailbox, done.delivered[i]) : i \in DOMAIN done.delivered}
    /\ pc' = "processed"
    /\ UNCHANGED <<config, position, result, now>>

\* the "Clear Email Log" button, shown while email alerts are enabled; it
\* ends in st.rerun()
ClearEmailLog ==
    /\ pc = "processed"
    /\ config.enabled
    /\ session_state' = [session_state EXCEPT !.email_log = 0, !.email_sent_alerts = {}]
    /\ pc' = "idle"
    /\ UNCHANGED <<config, position, result, args, ret, now, mailbox>>

\* the auto-refresh timer, or time.sleep(refresh_interval) and st.rerun()
AutoRefresh ==
    /\ pc = "processed"
    /\ \E minutes \in RefreshMinutes :
         /\ now + minutes <= MaxClock
         /\ now' = now + minutes
    /\ pc' = "idle"
    /\ UNCHANGED <<config, position, result, args, ret, session_state, mailbox>>

NextEmail == SetEmailSidebar \/ ProcessAndSendEmails \/ ClearEmailLog \/ AutoRefresh

SpecEmail == InitEmail /\ [][NextEmail]_vars

(***************************************************************************)
(* Properties of the priority ladder (specification Spec)                  *)
(***************************************************************************)
\* an evaluation has returned its result dict
Analyzed == pc = "analyzed" /\ result.kind = "result"

\* the last close is on the unfavourable side of the stop
Breached ==
    IF result.position_type = "LONG" THEN result.current_price <= result.stop_loss
    ELSE result.current_price >= result.stop_loss

\* the last close has reached the target
Reached(target) ==
    IF result.position_type = "LONG" THEN result.current_price >= target
    ELSE result.current_price <= target

Outcome(status, action) ==
    result.overall_status = status /\ result.overall_action = action

\* the outcome of the two rungs that precede every rung on the threshold:
\* extreme risk, then approaching the stop; other is the rung's own outcome
BelowUpperRungs(other) ==
    IF result.sl_risk >= 80 THEN Outcome("CRITICAL", "EXIT_EARLY")
    ELSE IF result.is_approaching_sl THEN Outcome("WARNING", "WATCH_CLOSELY")
    ELSE other

\* C1: whenever the last close is on the unfavourable side of the stop
\* (LONG: <=, SHORT: >=), the result has overall_status CRITICAL and
\* overall_action EXIT, whatever the scores, hits, levels, alignment, volume
\* signal and patterns are.
C1_StopBreachIsCriticalExit ==
    (Analyzed /\ Breached) => Outcome("CRITICAL", "EXIT")

\* a close exactly on the stop, with a detected pattern, ends CRITICAL / EXIT
C1_Witness ==
    /\ Analyzed
    /\ result.current_price = result.stop_loss
    /\ result.patterns # <<>>
    /\ Outcome("CRITICAL", "EXIT")

\* C6 as stated: every evaluation of a non-empty history, from one bar
\* upward, returns a complete result and never raises.
C6_ShortSeriesGivesResult ==
    (pc = "analyzed" /\ args.df.n >= 1) => result.kind = "result"

\* a one-bar history whose last volume is not 0: analyze_volume reads the
\* previous close and the evaluation ends in an IndexError
C6_Witness ==
    /\ pc = "analyzed"
    /\ args.df.n = 1
    /\ args.df.volume # 0
    /\ result.kind = "raised"

\* C7 (amended): with the stop not breached, an SL-risk score >= 80 gives
\* CRITICAL / EXIT_EARLY whatever the threshold is; a score below 80 that is
\* >= sl_alert_threshold + 20 gives WARNING / WATCH_CLOSELY when the price is
\* approaching the stop and WARNING / CONSIDER_EXIT otherwise.
C7_HighRiskRungs ==
    (Analyzed /\ ~Breached /\ result.sl_risk >= config.sl_alert_threshold + 20)
        => BelowUpperRungs(Outcome("WARNING", "CONSIDER_EXIT"))

\* a score from threshold + 20 up to 79, far from the stop, with target 1
\* reached
C7_Witness ==
    /\ Analyzed /\ ~Breached
    /\ result.sl_risk >= config.sl_alert_threshold + 20
    /\ result.sl_risk < 80
    /\ ~result.is_approaching_sl
    /\ result.target1_hit
    /\ Outcome("WARNING", "CONSIDER_EXIT")

\* C7 as stated: stop not breached and SL-risk >= sl_alert_threshold + 20
\* give CRITICAL / EXIT_EARLY.
C7_AsStated ==
    (Analyzed /\ ~Breached /\ result.sl_risk >= config.sl_alert_threshold + 20)
        => Outcome("CRITICAL", "EXIT_EARLY")

\* C8 (amended): with the stop not breached and sl_alert_threshold <=
\* SL-risk < sl_alert_threshold + 20, the result is WARNING / WATCH provided
\* the score is below 80 and the price is not approaching the stop; a score
\* >= 80 gives CRITICAL / EXIT_EARLY and an approaching price WARNING /
\* WATCH_CLOSELY.
C8_ModerateRiskRung ==
    (/\ Analyzed /\ ~Breached
     /\ result.sl_risk >= config.sl_alert_threshold
     /\ result.sl_risk < config.sl_alert_threshold + 20)
        => BelowUpperRungs(Outcome("WARNING", "WATCH"))

\* a moderate score with target 1 reached and a trailing stop available
C8_Witness ==
    /\ Analyzed /\ ~Breached
    /\ result.sl_risk >= config.sl_alert_threshold
    /\ result.sl_risk < config.sl_alert_threshold + 20
    /\ result.sl_risk < 80
    /\ ~result.is_approaching_sl
    /\ result.target1_hit
    /\ result.should_trail
    /\ Outcome("WARNING", "WATCH")

\* C8 as stated: stop not breached and threshold <= SL-risk < threshold + 20
\* give WARNING / WATCH.
C8_AsStated ==
    (/\ Analyzed /\ ~Breached
     /\ result.sl_risk >= config.sl_alert_threshold
     /\ result.sl_risk < config.sl_alert_threshold + 20)
        => Outcome("WARNING", "WATCH")

\* C9 (amended): with the stop not breached, SL-risk below the threshold and
\* target 2 reached, the result is SUCCESS / BOOK_PROFITS provided the score
\* is below 80 and the price is not approaching the stop; a score >= 80
\* gives CRITICAL / EXIT_EARLY and an approaching price WARNING /
\* WATCH_CLOSELY.
C9_Target2Rung ==
    (/\ Analyzed /\ ~Breached
     /\ result.sl_risk < config.sl_alert_threshold
     /\ Reached(result.target2))
        => BelowUpperRungs(Outcome("SUCCESS", "BOOK_PROFITS"))

\* target 2 reached exactly, with a trailing stop available
C9_Witness ==
    /\ Analyzed /\ ~Breached
    /\ result.sl_risk < config.sl_alert_threshold
    /\ result.current_price = result.target2
    /\ ~result.is_approaching_sl
    /\ result.should_trail
    /\ Outcome("SUCCESS", "BOOK_PROFITS")

\* C9 as stated: stop not breached, SL-risk below the threshold and target 2
\* reached give SUCCESS / BOOK_PROFITS.
C9_AsStated ==
    (/\ Analyzed /\ ~Breached
     /\ result.sl_risk < config.sl_alert_threshold
     /\ Reached(result.target2))
        => Outcome("SUCCESS", "BOOK_PROFITS")

\* C10 (amended): with the stop not breached, SL-risk below the threshold
\* and below 80, the price not approaching the stop, target 2 not reached and
\* target 1 reached, the upside score decides among three outcomes: >= 70
\* OPPORTUNITY / HOLD_EXTEND, 50..69 OPPORTUNITY / PARTIAL_EXIT, below 50
\* SUCCESS / BOOK_PROFITS.
C10_Target1Rung ==
    (/\ Analyzed /\ ~Breached
     /\ result.sl_risk < config.sl_alert_threshold
     /\ ~Reached(result.target2)
     /\ Reached(result.target1))
        => BelowUpperRungs(
             IF result.upside_score >= 70 THEN Outcome("OPPORTUNITY", "HOLD_EXTEND")
             ELSE IF result.upside_score >= 50 THEN Outcome("OPPORTUNITY", "PARTIAL_EXIT")
             ELSE Outcome("SUCCESS", "BOOK_PROFITS"))

\* an upside score in 60..69 on the target 1 rung ends in a partial exit
C10_Witness ==
    /\ Analyzed /\ ~Breached
    /\ result.sl_risk < config.sl_alert_threshold
    /\ ~Reached(result.target2)
    /\ Reached(result.target1)
    /\ result.upside_score >= 60
    /\ result.upside_score < 70
    /\ Outcome("OPPORTUNITY", "PARTIAL_EXIT")

\* C10 as stated: on the target 1 rung an upside score >= 60 gives
\* OPPORTUNITY / HOLD_EXTEND and a score below 60 SUCCESS / BOOK_PROFITS.
C10_AsStated ==
    (/\ Analyzed /\ ~Breached
     /\ result.sl_risk < config.sl_alert_threshold
     /\ ~Reached(result.target2)
     /\ Reached(result.target1))
        => IF result.upside_score >= 60 THEN Outcome("OPPORTUNITY", "HOLD_EXTEND")
           ELSE Outcome("SUCCESS", "BOOK_PROFITS")

\* C11 (amended): with the stop not breached, SL-risk below the threshold
\* and neither target reached, should_trail together with pnl_percent >=
\* trail trigger gives GOOD / TRAIL_SL provided the score is below 80 and the
\* price is not approaching the stop; a score >= 80 gives CRITICAL /
\* EXIT_EARLY and an approaching price WARNING / WATCH_CLOSELY.
C11_TrailRung ==
    (/\ Analyzed /\ ~Breached
     /\ result.sl_risk < config.sl_alert_threshold
     /\ ~Reached(result.target1) /\ ~Reached(result.target2)
     /\ result.should_trail
     /\ result.pnl_percent >= config.trail_threshold)
        => BelowUpperRungs(Outcome("GOOD", "TRAIL_SL"))

\* a profit exactly on the trail trigger, far from the stop, ends in
\* GOOD / TRAIL_SL
C11_Witness ==
    /\ Analyzed /\ ~Breached
    /\ result.sl_risk < config.sl_alert_threshold
    /\ ~Reached(result.target1) /\ ~Reached(result.target2)
    /\ result.should_trail
    /\ result.pnl_percent = config.trail_threshold
    /\ ~result.is_approaching_sl
    /\ Outcome("GOOD", "TRAIL_SL")

\* C11 as stated: stop not breached, SL-risk below the threshold, neither
\* target reached, should_trail and pnl_percent >= trail trigger give
\* GOOD / TRAIL_SL.
C11_AsStated ==
    (/\ Analyzed /\ ~Breached
     /\ result.sl_risk < config.sl_alert_threshold
     /\ ~Reached(result.target1) /\ ~Reached(result.target2)
     /\ result.should_trail
     /\ result.pnl_percent >= config.trail_threshold)
        => Outcome("GOOD", "TRAIL_SL")

\* none of the rungs on breach, threshold, targets and trail applies
NoEarlierRung ==
    /\ ~Breached
    /\ result.sl_risk < config.sl_alert_threshold
    /\ ~Reached(result.target1) /\ ~Reached(result.target2)
    /\ ~(result.should_trail /\ result.pnl_percent >= config.trail_threshold)

\* C12 (amended): when no breach, SL-risk below the threshold and below 80,
\* price not approaching the stop, no target reached and no trail trigger,
\* the outcome is WARNING / WATCH if multi-timeframe analysis is enabled,
\* the alignment score is < 40 and pnl_percent < 0, and OK / HOLD in every
\* other case; a score >= 80 gives CRITICAL / EXIT_EARLY and an approaching
\* price WARNING / WATCH_CLOSELY.  A disabled or data-less analysis
\* (alignment 50) never produces the multi-timeframe warning.
C12_MtfRungAndDefault ==
    (Analyzed /\ NoEarlierRung)
        => BelowUpperRungs(
             IF config.enable_mtf /\ result.mtf_alignment < 40 /\ result.pnl_percent < 0
             THEN Outcome("WARNING", "WATCH")
             ELSE Outcome("OK", "HOLD"))

\* a losing position whose multi-timeframe fetch returned nothing: alignment
\* 50 and OK / HOLD
C12_Witness ==
    /\ Analyzed /\ NoEarlierRung
    /\ config.enable_mtf
    /\ args.tfs = <<>>
    /\ result.mtf_alignment = 50
    /\ result.pnl_percent < 0
    /\ ~result.is_approaching_sl
    /\ Outcome("OK", "HOLD")

\* a losing position with every timeframe against it ends in the
\* multi-timeframe warning
C12_WitnessWarning ==
    /\ Analyzed /\ NoEarlierRung
    /\ result.mtf_alignment < 40
    /\ result.pnl_percent < 0
    /\ Outcome("WARNING", "WATCH")
    /\ result.alerts[1].type = "MTF WARNING"

\* C12 as stated: when no breach, SL-risk below the threshold, no target
\* reached and no trail trigger, the outcome is WARNING / WATCH if
\* multi-timeframe analysis is enabled, alignment < 40 and pnl_percent < 0,
\* and OK / HOLD otherwise.
C12_AsStated ==
    (Analyzed /\ NoEarlierRung)
        => IF config.enable_mtf /\ result.mtf_alignment < 40 /\ result.pnl_percent < 0
           THEN Outcome("WARNING", "WATCH")
           ELSE Outcome("OK", "HOLD")

\* the alert types of the rungs of the ladder
LadderAlertTypes ==
    {"STOP LOSS HIT", "EXTREME SL RISK", "APPROACHING STOP LOSS", "HIGH SL RISK",
     "MODERATE SL RISK", "TARGET 2 HIT", "TARGET HIT - STRONG HOLD",
     "TARGET HIT - PARTIAL EXIT", "TARGET HIT - EXIT", "TRAIL STOP LOSS", "MTF WARNING"}

\* the names detect_chart_patterns gives to the patterns it reports
PatternNames ==
    {"DOUBLE_TOP", "DOUBLE_BOTTOM", "HIGHER_HIGHS_LOWS", "LOWER_HIGHS_LOWS", "CONSOLIDATION"}

\* a volume warning or a pattern alert
Supplementary(alert) ==
    \/ alert = Alert("LOW", "VOLUME WARNING")
    \/ alert.priority = "MEDIUM" /\ alert.type \in PatternNames

\* C13: whenever the stop is breached (sl_hit true), the first entry of the
\* alert list is the stop-loss-hit alert with priority CRITICAL; no volume or
\* pattern alert precedes it.
C13_BreachAlertFirst ==
    (Analyzed /\ result.sl_hit)
        => /\ Len(result.alerts) >= 1
           /\ result.alerts[1] = Alert("CRITICAL", "STOP LOSS HIT")
           /\ \A i \in 2..Len(result.alerts) : Supplementary(result.alerts[i])

\* a breached LONG stop on a history with heavy selling volume and a
\* bearish pattern: the stop-loss-hit alert is the first entry
C13_Witness ==
    /\ Analyzed /\ result.sl_hit /\ Breached
    /\ result.position_type = "LONG"
    /\ result.volume_signal = "STRONG_SELLING"
    /\ \E i \in 1..Len(result.patterns) : result.patterns[i].signal = "BEARISH"
    /\ result.alerts[1] = Alert("CRITICAL", "STOP LOSS HIT")

\* C14: the alert list holds exactly one ladder alert when overall_status is
\* not OK and none when the default OK / HOLD is chosen; the ladder alert is
\* the first entry and every further entry is a volume or pattern alert.
C14_OneLadderAlert ==
    Analyzed =>
        LET alerts == result.alerts
            ladder == {i \in 1..Len(alerts) : alerts[i].type \in LadderAlertTypes}
        IN  /\ ladder = IF result.overall_status = "OK" THEN {} ELSE {1}
            /\ \A i \in (1..Len(alerts)) \ ladder : Supplementary(alerts[i])

\* a trailing-stop alert followed by a volume warning and a pattern alert
C14_Witness ==
    /\ Analyzed
    /\ Len(result.alerts) = 3
    /\ result.alerts[1] = Alert("MEDIUM", "TRAIL STOP LOSS")
    /\ result.alerts[2] = Alert("LOW", "VOLUME WARNING")
    /\ result.alerts[3].type \in PatternNames

\* the volume signal opposes the position
VolumeOpposes ==
    \/ result.position_type = "LONG" /\ result.volume_signal = "STRONG_SELLING"
    \/ result.position_type = "SHORT" /\ result.volume_signal = "STRONG_BUYING"

\* the alert list holds a volume warning
HasVolumeWarning ==
    \E i \in 1..Len(result.alerts) : result.alerts[i] = Alert("LOW", "VOLUME WARNING")

\* C21 (amended): a LOW volume warning is appended exactly when the volume
\* signal opposes the position, the SL-risk score is below the threshold and
\* overall_status is not CRITICAL; among the other rungs it does not depend
\* on which rung fixed the status.
C21_VolumeWarning ==
    Analyzed =>
        (HasVolumeWarning <=> (/\ VolumeOpposes
                               /\ result.sl_risk < config.sl_alert_threshold
                               /\ result.overall_status # "CRITICAL"))

\* opposing volume and a score below the threshold of 90 but >= 80: the
\* status is CRITICAL and no volume warning is appended
C21_Witness ==
    /\ Analyzed
    /\ VolumeOpposes
    /\ result.sl_risk < config.sl_alert_threshold
    /\ Outcome("CRITICAL", "EXIT_EARLY")
    /\ ~HasVolumeWarning

\* C21 as stated: a volume warning is appended exactly when the volume
\* signal opposes the position and the SL-risk score is below the threshold.
C21_AsStated ==
    Analyzed =>
        (HasVolumeWarning <=> (VolumeOpposes /\ result.sl_risk < config.sl_alert_threshold))

\* C15 as stated: whenever the evaluation ends OPPORTUNITY / HOLD_EXTEND, the
\* reported new_target is strictly beyond target2 (above for LONG, below for
\* SHORT), for every ATR and every nearest resistance / support.
C15_NewTargetBeyondTarget2 ==
    (Analyzed /\ Outcome("OPPORTUNITY", "HOLD_EXTEND"))
        => IF result.position_type = "LONG"
           THEN result.new_target > result.target2 * Scale
           ELSE result.new_target < result.target2 * Scale

\* a LONG position that is told to hold for an extended target although the
\* new target lies below target2
C15_Witness ==
    /\ Analyzed /\ Outcome("OPPORTUNITY", "HOLD_EXTEND")
    /\ result.position_type = "LONG"
    /\ result.upside_score >= 70
    /\ result.new_target < result.target2 * Scale

\* the points of the distance-to-stop term of the SL-risk score
DistanceTerm ==
    DistancePoints(DistanceBand(result.distance_to_sl, config.sl_approach_threshold))

\* the reasons given by the RSI, volume, volatility and support / resistance
\* terms of the SL-risk score
IndicatorReasons == {"RSI", "VOLUME", "VOLATILITY", "SR_BROKEN"}

\* nearest support and resistance synthesized at 5 % around the close
SynthesizedLevels ==
    /\ result.support = result.current_price * 9500
    /\ result.resistance = result.current_price * 10500

C2_ScoresBounded ==
    (pc = "scores_returned" /\ ret.kind = "score") => ret.score \in 0..100

\* an upside score that the clamp holds at 100
C2_Witness ==
    /\ pc = "scores_returned"
    /\ ret.kind = "score"
    /\ ret.fn = "predict_upside_potential"
    /\ ret.score = 100

(***************************************************************************)
(* Properties of calculate_dynamic_levels (specification SpecLevels)       *)
(***************************************************************************)
\* C3: should_trail is true only when the returned trail_stop is strictly
\* more favourable than the stop passed in (higher for LONG, lower for
\* SHORT), in every profit tier and for every ATR.
C3_TrailNeverLoosens ==
    (pc = "levels_returned" /\ ret.should_trail)
        => IF args.position_type = "LONG"
           THEN ret.trail_stop > args.stop_loss * Scale
           ELSE ret.trail_stop < args.stop_loss * Scale

\* a SHORT position in the TIGHTEN tier whose stop is lowered
C3_Witness ==
    /\ pc = "levels_returned"
    /\ args.position_type = "SHORT"
    /\ ret.trail_action = "TIGHTEN"
    /\ ret.should_trail
    /\ ret.trail_stop < args.stop_loss * Scale

\* C16: for a LONG position whose stop is below the entry price, whenever
\* pnl_percent >= trail_trigger the returned trail_stop is >= entry_price and
\* should_trail is true; for a SHORT position whose stop is above the entry
\* price, trail_stop <= entry_price and should_trail is true.
C16_TriggerReachesBreakeven ==
    (pc = "levels_returned" /\ args.pnl_percent >= args.trail_trigger)
        => /\ (args.position_type = "LONG" /\ args.stop_loss < args.entry_price)
                => (ret.trail_stop >= args.entry_price * Scale /\ ret.should_trail)
           /\ (args.position_type = "SHORT" /\ args.stop_loss > args.entry_price)
                => (ret.trail_stop <= args.entry_price * Scale /\ ret.should_trail)

\* a SHORT position in the BREAKEVEN tier whose close plus 2 x ATR lies
\* above the entry price: the stop moves to the entry price
C16_Witness ==
    /\ pc = "levels_returned"
    /\ args.position_type = "SHORT"
    /\ args.stop_loss > args.entry_price
    /\ args.pnl_percent >= args.trail_trigger
    /\ ret.trail_action = "BREAKEVEN"
    /\ args.current_price * Scale + ret.atr * 2 > args.entry_price * Scale
    /\ ret.trail_stop = args.entry_price * Scale
    /\ ret.should_trail

\* C4: for either side, when pnl_percent < trail_trigger * 0.5 the returned
\* trail_stop equals the stop passed in, should_trail is false and
\* trail_improvement is 0, whatever ATR and support / resistance are.
C4_BelowHalfTriggerKeepsStop ==
    (pc = "levels_returned" /\ args.pnl_percent * 2 < args.trail_trigger)
        => /\ ret.trail_stop = args.stop_loss * Scale
           /\ ~ret.should_trail
           /\ ret.trail_improvement = 0

\* a profit just below half the trigger, on a history with a wide ATR and
\* clustered pivots
C4_Witness ==
    /\ pc = "levels_returned"
    /\ args.pnl_percent > 0
    /\ args.pnl_percent * 2 < args.trail_trigger
    /\ args.df.n = MaxBars
    /\ args.df.pivot_lows # <<>>
    /\ ret.trail_action = "HOLD"
    /\ ret.trail_stop = args.stop_loss * Scale

(***************************************************************************)
(* Properties of the recommendations (specification SpecRecs)              *)
(***************************************************************************)
\* predict_sl_risk has returned
SlRiskReturned ==
    pc = "recs_returned" /\ ret.kind = "returned" /\ ret.fn = "predict_sl_risk"

\* C18 (amended): predict_sl_risk maps the final score to a priority by
\* these bands, for every threshold T: score >= 75 gives CRITICAL whatever T
\* is; otherwise score >= T + 20 gives HIGH; otherwise score >= T gives
\* MEDIUM; otherwise score >= 25 gives LOW; otherwise SAFE.
C18_PriorityBands ==
    SlRiskReturned =>
        ret.value.priority =
            IF ret.value.risk_score >= 75 THEN "CRITICAL"
            ELSE IF ret.value.risk_score >= args.sl_alert_threshold + 20 THEN "HIGH"
            ELSE IF ret.value.risk_score >= args.sl_alert_threshold THEN "MEDIUM"
            ELSE IF ret.value.risk_score >= 25 THEN "LOW"
            ELSE "SAFE"

\* a score in 20..24 below the threshold has priority SAFE
C18_Witness ==
    /\ SlRiskReturned
    /\ ret.value.risk_score \in 20..24
    /\ ret.value.risk_score < args.sl_alert_threshold
    /\ ret.value.priority = "SAFE"

\* C18 as stated: as above with the LOW band starting at a score of 20.
C18_AsStated ==
    SlRiskReturned =>
        ret.value.priority =
            IF ret.value.risk_score >= 75 THEN "CRITICAL"
            ELSE IF ret.value.risk_score >= args.sl_alert_threshold + 20 THEN "HIGH"
            ELSE IF ret.value.risk_score >= args.sl_alert_threshold THEN "MEDIUM"
            ELSE IF ret.value.risk_score >= 20 THEN "LOW"
            ELSE "SAFE"

\* predict_upside_potential has returned
UpsideReturned ==
    pc = "recs_returned" /\ ret.kind = "returned" /\ ret.fn = "predict_upside_potential"

\* C19 (amended): predict_upside_potential maps its clamped score to exactly
\* one of five recommendations: STRONG_HOLD when score >= 75, HOLD when
\* 60 <= score < 75, PARTIAL_EXIT when 45 <= score < 60, MOSTLY_EXIT when
\* 30 <= score < 45, EXIT when score < 30.
C19_UpsideRecommendations ==
    UpsideReturned =>
        /\ ret.value.score \in 0..100
        /\ ret.value.recommendation =
              IF ret.value.score >= 75 THEN "STRONG_HOLD"
              ELSE IF ret.value.score >= 60 THEN "HOLD"
              ELSE IF ret.value.score >= 45 THEN "PARTIAL_EXIT"
              ELSE IF ret.value.score >= 30 THEN "MOSTLY_EXIT"
              ELSE "EXIT"

\* a score in 30..44 is recommended MOSTLY_EXIT
C19_Witness ==
    /\ UpsideReturned
    /\ ret.value.score \in 30..44
    /\ ret.value.recommendation = "MOSTLY_EXIT"

\* C19 as stated: the recommendation is HOLD when score >= 70, PARTIAL_EXIT
\* when 50 <= score < 70 and EXIT when score < 50.
C19_AsStated ==
    UpsideReturned =>
        ret.value.recommendation =
            IF ret.value.score >= 70 THEN "HOLD"
            ELSE IF ret.value.score >= 50 THEN "PARTIAL_EXIT"
            ELSE "EXIT"

(***************************************************************************)
(* Properties of multi_timeframe_analysis (specification SpecMtf)          *)
(***************************************************************************)
\* the fetched timeframes that are kept and classified: at least 20 daily
\* bars or 10 bars of another timeframe, and at least 14 bars
ClassifiedTimeframes ==
    {i \in 1..Len(args.tfs) :
        /\ args.tfs[i].bars >= (IF args.tfs[i].name = "Daily" THEN 20 ELSE 10)
        /\ args.tfs[i].bars >= 14}

\* the classified timeframes whose five votes make at least half of the
\* points in the position's favourable direction
FavourableTimeframes ==
    {i \in ClassifiedTimeframes :
        LET points == SumSeq([k \in 1..5 |->
                          IF args.position_type = "LONG"
                          THEN Max2(args.tfs[i].votes[k], 0)
                          ELSE Max2(0 - args.tfs[i].votes[k], 0)])
        IN  points * 100 >= 50 * 10}

\* C20 as stated: alignment_score is favourable / classified x 100 truncated
\* to an integer in 0..100, over the classified timeframes only; when no
\* timeframe is classified the score is 50 and the recommendation says that
\* the data is unavailable.
C20_AlignmentOrUnavailable ==
    pc = "mtf_returned" =>
        IF ClassifiedTimeframes = {}
        THEN /\ ret.alignment_score = 50
             /\ ret.recommendation = "Unable to fetch multi-timeframe data"
        ELSE /\ ret.alignment_score = (Cardinality(FavourableTimeframes) * 100)
                                          \div Cardinality(ClassifiedTimeframes)
             /\ ret.alignment_score \in 0..100

\* timeframes of 10 to 13 bars were fetched and none is classified: the
\* score is 50 and the recommendation reads mixed signals
C20_Witness ==
    /\ pc = "mtf_returned"
    /\ args.tfs # <<>>
    /\ ClassifiedTimeframes = {}
    /\ ret.alignment_score = 50
    /\ ret.total_timeframes = 0
    /\ ret.recommendation = "Mixed signals"

\* C20, the part that holds: the score over the classified timeframes, and
\* 50 when none is classified
C20_AlignmentScore ==
    pc = "mtf_returned" =>
        /\ ret.alignment_score =
              IF ClassifiedTimeframes = {} THEN 50
              ELSE (Cardinality(FavourableTimeframes) * 100)
                       \div Cardinality(ClassifiedTimeframes)
        /\ ret.alignment_score \in 0..100
        /\ ret.total_timeframes = Cardinality(ClassifiedTimeframes)
        /\ ret.aligned_count = Cardinality(FavourableTimeframes)

\* one favourable timeframe of three classified ones: 33
C20_WitnessTruncated ==
    /\ pc = "mtf_returned"
    /\ Cardinality(ClassifiedTimeframes) = 3
    /\ Cardinality(FavourableTimeframes) = 1
    /\ Len(args.tfs) = 4
    /\ ret.alignment_score = 33

(***************************************************************************)
(* Properties of two calls of predict_sl_risk (specification SpecPair)     *)
(***************************************************************************)
\* C22: two calls of predict_sl_risk that differ only in sl_alert_threshold
\* return the same risk score, reasons, distance to the stop and
\* is_approaching_sl; only priority and recommendation may differ.
C22_ThresholdLeavesScore ==
    pc = "pair_returned" =>
        /\ ret.first.risk_score = ret.second.risk_score
        /\ ret.first.reasons = ret.second.reasons
        /\ ret.first.distance_pct = ret.second.distance_pct
        /\ ret.first.is_approaching_sl = ret.second.is_approaching_sl

\* thresholds 30 and 90 on the same position: one score, reasons given, two
\* priorities
C22_Witness ==
    /\ pc = "pair_returned"
    /\ args.sl_alert_threshold = 30
    /\ ret.other_threshold = 90
    /\ ret.first.risk_score = ret.second.risk_score
    /\ ret.first.reasons # <<>>
    /\ ret.first.priority = "HIGH"
    /\ ret.second.priority = "LOW"

(***************************************************************************)
(* Properties of the distance term (specification SpecDistance)            *)
(***************************************************************************)
\* C23: for a fixed sl_approach_threshold and two non-negative distances
\* d1 <= d2 the points for d1 are >= the points for d2 and the term is at
\* most 40; for a negative distance the final score is 100.
C23_DistanceTermMonotone ==
    pc = "distance_returned" =>
        /\ ret.near.distance_pct.num >= 0
              => /\ ret.near.points >= ret.far.points
                 /\ ret.near.points <= 40
                 /\ ret.far.points <= 40
        /\ ret.near.distance_pct.num < 0 => ret.near.risk_score = 100

\* with an approach threshold of 3 %, a distance of 4 % lies below
\* 1.5 x 3 % and scores 25, a distance of 5 % lies below 2 x 3 % and scores 15
C23_Witness ==
    /\ pc = "distance_returned"
    /\ args.sl_approach_threshold = 300
    /\ args.near = 8 /\ args.far = 10
    /\ ret.near.points = 25
    /\ ret.far.points = 15

\* a breached stop on a rising history: the other terms add nothing and the
\* score is 100
C23_WitnessBreached ==
    /\ pc = "distance_returned"
    /\ ret.near.distance_pct.num < 0
    /\ args.position_type = "LONG"
    /\ args.df.diffs[1] > 0
    /\ ret.near.risk_score = 100

(***************************************************************************)
(* Properties of the RSI warm-up (specification SpecWarmup)                *)
(***************************************************************************)
\* C24 as stated: on every close series of fewer than 15 bars the RSI
\* reported in the result is the neutral fallback 50.
C24_ShortSeriesRsiNeutral ==
    (pc = "warmup_analyzed" /\ args.df.n < RsiPeriod + 1) => result.rsi = 50

\* a series of exactly 14 bars: the RSI is computed from the 13 changes and
\* differs from 50
C24_Witness ==
    /\ pc = "warmup_analyzed"
    /\ args.df.n = RsiPeriod
    /\ result.rsi # 50
    /\ result.rsi \in 0..100

\* C24, the part that holds: on fewer than 14 bars the reported RSI is 50
C24_BelowPeriodRsiNeutral ==
    (pc = "warmup_analyzed" /\ args.df.n < RsiPeriod) => result.rsi = 50

(***************************************************************************)
(* Properties of the email cooldown (SpecEmail)                            *)
(***************************************************************************)
\* the entries of email_actions of the last cycle, as <<type, hash, success>>
Attempts == {<<ret[k][1], BlockHash(args.results, ret[k][1]), ret[k][3]>> : k \in DOMAIN ret}

\* C25: over any sequence of refresh cycles, two messages delivered for the
\* same alert hash are at least the cooldown (the one in force at the later
\* delivery) apart, and a cycle calls send_email_alert for a hash only if no
\* message was delivered for it before or the last one is at least the
\* cooldown old
C25_CooldownBetweenSends ==
    /\ \A d, e \in mailbox :
         (d.alert_hash = e.alert_hash /\ d.nth < e.nth) => e.at - d.at >= e.cooldown
    /\ pc = "processed"
         => \A attempt \in Attempts :
              LET delivered == {d \in mailbox : d.alert_hash = attempt[2]}
                  last == {d \in delivered : \A e \in delivered : e.nth <= d.nth}
              IN \A d \in delivered :
                   IF attempt[3] /\ d \in last
                   THEN d.at = now
                   ELSE now - d.at >= config.cooldown

\* a second message for a hash delivered exactly the cooldown after the first
C25_Witness ==
    /\ pc = "processed"
    /\ \E d, e \in mailbox :
         /\ d.alert_hash = e.alert_hash
         /\ d.nth < e.nth
         /\ e.at = now
         /\ e.at - d.at = e.cooldown
         /\ \E attempt \in Attempts : attempt[2] = e.alert_hash /\ attempt[3]

\* a cycle in which the critical block is suppressed by the cooldown
C25_WitnessSuppressed ==
    /\ pc = "processed"
    /\ config.enabled /\ config.on_critical
    /\ Categorize(args.results, "CRITICAL") # <<>>
    /\ \A attempt \in Attempts : attempt[1] # "CRITICAL"
    /\ BlockHash(args.results, "CRITICAL") \in DOMAIN session_state.last_email_time
    /\ now - session_state.last_email_time[BlockHash(args.results, "CRITICAL")] = config.cooldown - 5

\* C30: when send_email_alert fails in a block (missing credentials, an
\* authentication error or any other exception), the cycle leaves the
\* entries of last_email_time and email_sent_alerts for that hash as they
\* were (the whole store if every send of the cycle fails), appends the
\* attempt with success False to email_actions, delivers nothing for the
\* hash, and can_send_email is true for the hash from that minute on under
\* the same settings
C30_FailedSendKeepsStore ==
    [][ProcessAndSendEmails =>
         /\ \A alert_type \in Attempted(args'.results, config, session_state, now) :
              \E k \in DOMAIN ret' :
                /\ ret'[k][1] = alert_type
                /\ ret'[k][2] = ListedTickers(Categorize(args'.results, alert_type))
                /\ ret'[k][3] = (\E d \in mailbox' \ mailbox : d.alert_hash = BlockHash(args'.results, alert_type))
         /\ \A k \in DOMAIN ret' :
              ret'[k][3] = FALSE =>
                LET alert_hash == BlockHash(args'.results, ret'[k][1])
                    before == session_state.last_email_time
                    after == session_state'.last_email_time
                IN /\ alert_hash \in DOMAIN after <=> alert_hash \in DOMAIN before
                   /\ alert_hash \in DOMAIN before => after[alert_hash] = before[alert_hash]
                   /\ alert_hash \in session_state'.email_sent_alerts
                        <=> alert_hash \in session_state.email_sent_alerts
                   /\ \A later \in now..MaxClock :
                        can_send_email(session_state', alert_hash, config.cooldown, later)
         /\ (ret' # <<>> /\ \A k \in DOMAIN ret' : ret'[k][3] = FALSE)
              => /\ session_state'.last_email_time = session_state.last_email_time
                 /\ session_state'.email_sent_alerts = session_state.email_sent_alerts
                 /\ session_state'.email_log > session_state.email_log
                 /\ mailbox' = mailbox
    ]_vars

\* a cycle whose only send fails for a hash that was delivered a cooldown
\* earlier: the older mark is still in the store
C30_Witness ==
    /\ pc = "processed"
    /\ \E attempt \in Attempts :
         /\ attempt[3] = FALSE
         /\ attempt[2] \in DOMAIN session_state.last_email_time
         /\ attempt[2] \in session_state.email_sent_alerts
         /\ now - session_state.last_email_time[attempt[2]] >= config.cooldown
         /\ config.password # ""

\* a cycle in which the send fails for want of credentials
C30_WitnessMissingCredentials ==
    /\ pc = "processed"
    /\ config.enabled /\ config.password = ""
    /\ \E attempt \in Attempts : attempt[3] = FALSE /\ attempt[2] \notin DOMAIN session_state.last_email_time

(***************************************************************************)
(* Properties of the breach and target tests (Spec)                        *)
(***************************************************************************)
\* C26 as stated: whenever the result has sl_hit true, its sl_risk is 100,
\* a close exactly on the stop included
C26_BreachScores100 ==
    (Analyzed /\ result.sl_hit) => result.sl_risk = 100

\* a close exactly on the stop: sl_hit is true and the score is below 100
C26_Witness ==
    /\ Analyzed
    /\ result.sl_hit
    /\ result.current_price = result.stop_loss
    /\ result.sl_risk < 100
    /\ Outcome("CRITICAL", "EXIT")

\* a close strictly beyond the stop gives sl_hit true and the score 100
C26_StrictBreachScores100 ==
    (Analyzed /\ StopHitStrict(result.position_type, result.current_price, result.stop_loss))
        => (result.sl_hit /\ result.sl_risk = 100)

(***************************************************************************)
(* Properties of the trailing stop against the current price (SpecLevels)  *)
(***************************************************************************)
\* pnl_percent is the profit of current_price over entry_price, and the stop
\* passed in is not reached by current_price
LevelsOfOpenPosition ==
    /\ pc = "levels_returned"
    /\ ~StopHit(args.position_type, args.current_price, args.stop_loss)
    /\ IF args.position_type = "LONG"
       THEN args.pnl_percent * args.entry_price = (args.current_price - args.entry_price) * 100 * 100
       ELSE args.pnl_percent * args.entry_price = (args.entry_price - args.current_price) * 100 * 100

\* C27 as stated, for a position whose own stop is not reached: the returned
\* trail_stop is below the current price for LONG and above it for SHORT,
\* for every trail_trigger, tier and ATR
C27_TrailStopNotBreached ==
    LevelsOfOpenPosition
        => IF args.position_type = "LONG"
           THEN ret.trail_stop < args.current_price * Scale
           ELSE ret.trail_stop > args.current_price * Scale

\* trail_trigger 0.5 % and a profit of 2 %: the 6 % lock puts the LONG
\* trail_stop above the current price
C27_Witness ==
    /\ LevelsOfOpenPosition
    /\ args.position_type = "LONG"
    /\ args.trail_trigger = 50
    /\ args.pnl_percent = 200
    /\ ret.trail_action = "LOCK_PROFITS"
    /\ ret.atr > 0
    /\ ret.trail_stop = (args.entry_price * 106 * Scale) \div 100
    /\ ret.trail_stop > args.current_price * Scale
    /\ ret.should_trail

\* with a trail_trigger of 2 % or more the returned trail_stop is not reached
\* by the current price
C27_FromDefaultTrigger ==
    (LevelsOfOpenPosition /\ args.trail_trigger >= 200)
        => IF args.position_type = "LONG"
           THEN ret.trail_stop < args.current_price * Scale
           ELSE ret.trail_stop > args.current_price * Scale

\* C28 as stated: in every result target2_hit implies target1_hit, for LONG
\* and SHORT positions, a target2 defaulted to target1 x 1.1 included, so
\* that the TARGET 2 HIT rung is never taken while target1 is unreached
C28_Target2ImpliesTarget1 ==
    Analyzed => (result.target2_hit => result.target1_hit)

\* a SHORT position without Target_2: the default target1 x 1.1 lies above
\* target1, and a close between the two ends in SUCCESS / BOOK_PROFITS with
\* target1 unreached
C28_Witness ==
    /\ Analyzed
    /\ result.position_type = "SHORT"
    /\ result.target2 = (result.target1 * 11) \div 10
    /\ result.target1 < result.current_price
    /\ result.current_price <= result.target2
    /\ result.target2_hit
    /\ ~result.target1_hit
    /\ Outcome("SUCCESS", "BOOK_PROFITS")

\* for LONG positions, and for SHORT positions whose target2 is beyond
\* target1, target2_hit implies target1_hit
C28_OrderedTargets ==
    (Analyzed /\ (IF result.position_type = "LONG" THEN result.target2 >= result.target1
                  ELSE result.target2 <= result.target1))
        => (result.target2_hit => result.target1_hit)

\* X occurs in the sequence s
InSeq(x, s) == \E i \in DOMAIN s : s[i] = x

\* C29: for every history with a positive last close the levels that
\* find_support_resistance returns satisfy nearest_support < current_price <
\* nearest_resistance, whether they come from clustered pivots or from the
\* 0.95 / 1.05 fallbacks, and predict_sl_risk, called with the same last
\* close, never adds the support / resistance term
C29_CloseBetweenLevels ==
    (Analyzed /\ result.current_price > 0)
        => /\ result.support < result.current_price * Scale
           /\ result.current_price * Scale < result.resistance
           /\ ~InSeq("SR_BROKEN", result.sl_reasons)

\* a window with a pivot low above the last close and a pivot high below
\* it: the levels returned are clustered pivots on the right sides
C29_Witness ==
    /\ Analyzed
    /\ result.df.n >= SrMinBars
    /\ \E i \in DOMAIN result.df.pivot_lows : result.df.pivot_lows[i] > result.current_price
    /\ \E i \in DOMAIN result.df.pivot_highs : result.df.pivot_highs[i] < result.current_price
    /\ result.support > result.current_price * 9500
    /\ result.support < result.current_price * Scale
    /\ result.resistance < result.current_price * 10500
    /\ result.resistance > result.current_price * Scale
    /\ result.position_type = "LONG"
    /\ ~InSeq("SR_BROKEN", result.sl_reasons)

\* a history shorter than 10 bars: the levels are the 0.95 / 1.05 fallbacks
C29_WitnessFallback ==
    /\ Analyzed
    /\ result.df.n < SrMinBars
    /\ result.support = result.current_price * 9500
    /\ result.resistance = result.current_price * 10500

====
